---- MODULE Spec2Model ----
(***************************************************************************)
(* A model of the course/program matching and competition-scoring engine   *)
(* of the college competition analyser (course_matcher.py, analyzer.py,    *)
(* database.py, main.py, interactive_analyzer.py, scraper.py).             *)
(*                                                                         *)
(* Strings are sequences of one-character strings, so that lower(),        *)
(* strip() and split() are computed and not assumed.  Python floats that   *)
(* are quotients of small integers are kept as reduced fractions           *)
(* [num |-> n, den |-> d]; a comparison with a decimal literal (0.4, 0.1)  *)
(* is the cross-multiplied integer comparison, which agrees with the       *)
(* IEEE comparison for every quotient of integers below 2^26.  The         *)
(* weighted sum of the analyzer is computed in binary64 arithmetic.        *)
(***************************************************************************)
EXTENDS Integers, Sequences, FiniteSets, TLC

VARIABLES
    \* -- the scorer called on its own (SpecScore)
    score_args,          \* <<exact_matches, close_matches, competitor_total>>
    score_result,        \* None before the call, the returned score after it
    \* -- a classifier or a comparator called on its own (SpecHelper)
    helper_call,         \* the function called and its arguments
    helper_result,       \* None before the call, [returned |-> value] after it
    \* -- CollegeScraper.scrape_college (SpecScrape)
    scrape_url,          \* the url argument
    scrape_attempt,      \* the loop variable attempt
    scrape_requests,     \* log: the outcome of each session.get made, in order
    scrape_returned,     \* None while the call runs, [returned |-> value] after it
    \* -- CourseMatcherAI.match_courses and interactive run_analysis (SpecMatch)
    your_programs,       \* MY_COLLEGES[college_id]['programs'], as configured
    competitor_courses,  \* the competitor_courses argument, in dict order
    report,              \* what match_courses returned (None before the call)
    report_again,        \* what a second, identical call of match_courses returned
    ireport,             \* the report run_analysis wrote (None before the call)
    scorer_calls,        \* log: the scorer calls made, with the call site
    \* -- CompetitionAnalyzer.compare_colleges (SpecCompare)
    my_college,          \* the home profile handed to compare_colleges
    competitor,          \* the competitor profile handed to it
    comparison,          \* what compare_colleges returned (None before the call)
    \* -- CollegeCompetitionAI over the SQLite database (SpecAnalyze)
    db_my_college,       \* table my_college: None, or the row of MY_COLLEGE_ID
    db_competitors,      \* table competitor_colleges, in rowid order
    db_comparisons,      \* table comparison_results, in rowid order
    results,             \* what the last analyze_competitors call returned
    calls_made           \* log: the calls the last operation made, in call order
                         \* (a read-only operation is logged with what it returned)

scoreVars == <<score_args, score_result>>
helperVars == <<helper_call, helper_result>>
scrapeVars == <<scrape_url, scrape_attempt, scrape_requests, scrape_returned>>
matchVars == <<your_programs, competitor_courses, report, report_again, ireport,
              scorer_calls>>
compareVars == <<my_college, competitor, comparison>>

dbVars == <<db_my_college, db_competitors, db_comparisons, results, calls_made>>

vars == <<scoreVars, helperVars, scrapeVars, matchVars, compareVars, dbVars>>

\* Python's None, and the value of a result not yet returned
None == [none |-> TRUE]

----------------------------------------------------------------------------
(* Bounds of the model *)

\* largest count handed to the scorer when it is called on its own
MaxCount == 6
\* longest program list drawn freely from a pool
MaxLen == 2
\* most courses of a competitor whose score is classified on its own
MaxCourses == 10

----------------------------------------------------------------------------
(* Fractions: the value of a Python float quotient n / d *)

RECURSIVE GCD(_, _)
GCD(a, b) == IF b = 0 THEN a ELSE GCD(b, a % b)

Frac(n, d) == LET g == GCD(n, d) IN [num |-> n \div g, den |-> d \div g]

RZero == [num |-> 0, den |-> 1]
ROne == [num |-> 1, den |-> 1]

RLess(x, y) == x.num * y.den < y.num * x.den
RLeq(x, y) == x.num * y.den <= y.num * x.den
RMin(x, y) == IF RLess(y, x) THEN y ELSE x

----------------------------------------------------------------------------
(* CourseMatcherAI._calculate_competition_score *)

\* the scorer without its cap
calculate_competition_score_uncapped(exact_matches, close_matches, competitor_total) ==
    IF competitor_total = 0
    THEN RZero
    ELSE Frac((exact_matches * 2) + close_matches, competitor_total)

\* the scorer with exact matches weighted like close ones
calculate_competition_score_unweighted(exact_matches, close_matches, competitor_total) ==
    IF competitor_total = 0
    THEN RZero
    ELSE RMin(ROne, Frac(exact_matches + close_matches, competitor_total))

\* the scorer with the weight 2 on the close matches
calculate_competition_score_close_doubled(exact_matches, close_matches, competitor_total) ==
    IF competitor_total = 0
    THEN RZero
    ELSE RMin(ROne, Frac(exact_matches + (close_matches * 2), competitor_total))

calculate_competition_score(exact_matches, close_matches, competitor_total) ==
    IF competitor_total = 0
    THEN RZero
    ELSE LET weighted_overlap == (exact_matches * 2) + close_matches
             score == Frac(weighted_overlap, competitor_total)
         IN  RMin(ROne, score)

----------------------------------------------------------------------------
(* Strings: str.lower, str.strip, str.split *)

Whitespace == {" "}

LowerChar(ch) ==
    CASE ch = "A" -> "a"
      [] ch = "B" -> "b"
      [] ch = "C" -> "c"
      [] OTHER -> ch

lower(s) == [i \in 1..Len(s) |-> LowerChar(s[i])]

RECURSIVE lstrip(_)
lstrip(s) ==
    IF s = <<>> THEN s
    ELSE IF Head(s) \in Whitespace THEN lstrip(Tail(s)) ELSE s

RECURSIVE rstrip(_)
rstrip(s) ==
    IF s = <<>> THEN s
    ELSE IF s[Len(s)] \in Whitespace THEN rstrip(SubSeq(s, 1, Len(s) - 1)) ELSE s

strip(s) == rstrip(lstrip(s))

\* str.split(): the maximal runs of non-whitespace characters, in order
RECURSIVE SplitScan(_, _, _)
SplitScan(s, word, words) ==
    LET closed == IF word = <<>> THEN words ELSE Append(words, word)
    IN  IF s = <<>> THEN closed
        ELSE IF Head(s) \in Whitespace
             THEN SplitScan(Tail(s), <<>>, closed)
             ELSE SplitScan(Tail(s), Append(word, Head(s)), words)

split(s) == SplitScan(s, <<>>, <<>>)

Range(f) == {f[i] : i \in DOMAIN f}

\* the first n items of a list: list[:n]
Take(l, n) == SubSeq(l, 1, IF Len(l) < n THEN Len(l) ELSE n)

\* the items of a list without repetitions, each at its first position
\* (the key order of a dict filled by a loop over the list)
RECURSIVE FirstOccurrences(_)
FirstOccurrences(l) ==
    IF l = <<>> THEN <<>>
    ELSE LET init == FirstOccurrences(SubSeq(l, 1, Len(l) - 1))
             last == l[Len(l)]
         IN  IF last \in Range(init) THEN init ELSE Append(init, last)

\* list(set(...)): the members of a set, once each, in the order the
\* interpreter's hashing gives them (fixed, and not specified)
RECURSIVE ListOfSet(_)
ListOfSet(S) ==
    IF S = {} THEN <<>>
    ELSE LET x == CHOOSE y \in S : TRUE
         IN  <<x>> \o ListOfSet(S \ {x})

\* [p.lower().strip() for p in programs if p]
normalize_programs(programs) ==
    LET kept == SelectSeq(programs, LAMBDA p : p # <<>>)
    IN  [i \in 1..Len(kept) |-> strip(lower(kept[i]))]

----------------------------------------------------------------------------
(* CourseMatcherAI._find_exact_matches, _find_close_matches *)

\* the matches as the comprehension collects them, set() left out
find_exact_matches_repeated(your_courses, competitor_courses_list) ==
    LET your_set == Range(your_courses)
    IN  SelectSeq(competitor_courses_list, LAMBDA c : c \in your_set)

find_exact_matches(your_courses, competitor_courses_list) ==
    LET your_set == Range(your_courses)
        matches == SelectSeq(competitor_courses_list, LAMBDA c : c \in your_set)
    IN  ListOfSet(Range(matches))

\* the threshold met by a ratio of exactly 0.4 as well
IsCloseMatch_inclusive(comp_keywords, your_keywords) ==
    LET overlap == Cardinality(comp_keywords \cap your_keywords)
        total_keywords == Cardinality(comp_keywords \cup your_keywords)
    IN  /\ overlap > 0
        /\ total_keywords > 0
        /\ overlap * 10 >= 4 * total_keywords

\* overlap > 0 and total_keywords > 0 and overlap / total_keywords > 0.4
IsCloseMatch(comp_keywords, your_keywords) ==
    LET overlap == Cardinality(comp_keywords \cap your_keywords)
        total_keywords == Cardinality(comp_keywords \cup your_keywords)
    IN  /\ overlap > 0
        /\ total_keywords > 0
        /\ overlap * 10 > 4 * total_keywords

\* the inner loop without its break, the last match kept
RECURSIVE LastCloseMatch(_, _)
LastCloseMatch(comp_course, map_keys) ==
    IF map_keys = <<>> THEN <<>>
    ELSE LET last == map_keys[Len(map_keys)]
         IN  IF IsCloseMatch(Range(split(comp_course)), Range(split(last)))
             THEN <<last>>
             ELSE LastCloseMatch(comp_course, SubSeq(map_keys, 1, Len(map_keys) - 1))

\* the inner loop with its break: the first key of keywords_map that matches
RECURSIVE FirstCloseMatch(_, _)
FirstCloseMatch(comp_course, map_keys) ==
    IF map_keys = <<>> THEN <<>>
    ELSE IF IsCloseMatch(Range(split(comp_course)), Range(split(Head(map_keys))))
         THEN <<Head(map_keys)>>
         ELSE FirstCloseMatch(comp_course, Tail(map_keys))

RECURSIVE CloseMatchLoop(_, _, _)
CloseMatchLoop(competitor_courses_list, map_keys, exclude) ==
    IF competitor_courses_list = <<>> THEN <<>>
    ELSE LET comp_course == Head(competitor_courses_list)
             rest == CloseMatchLoop(Tail(competitor_courses_list), map_keys, exclude)
             found == FirstCloseMatch(comp_course, map_keys)
         IN  IF comp_course \in exclude \/ found = <<>>
             THEN rest
             ELSE <<(<<comp_course, found[1]>>)>> \o rest

\* the matcher with exclude not consulted
find_close_matches_no_exclude(your_courses, competitor_courses_list, exclude) ==
    LET map_keys == FirstOccurrences(your_courses)
        matches == CloseMatchLoop(competitor_courses_list, map_keys, {})
    IN  ListOfSet(Range(matches))

\* pairs <<competitor_course, your_course>>
find_close_matches(your_courses, competitor_courses_list, exclude) ==
    LET map_keys == FirstOccurrences(SelectSeq(your_courses, LAMBDA c : c \notin exclude))
        matches == CloseMatchLoop(competitor_courses_list, map_keys, exclude)
    IN  ListOfSet(Range(matches))

----------------------------------------------------------------------------
(* CourseMatcherAI._classify_competition *)

\* the tiers with each boundary value left in the lower tier
classify_competition_strict(score) ==
    IF RLess(Frac(7, 10), score) THEN "VERY HIGH"
    ELSE IF RLess(Frac(5, 10), score) THEN "HIGH"
    ELSE IF RLess(Frac(3, 10), score) THEN "MEDIUM"
    ELSE IF RLess(Frac(1, 10), score) THEN "LOW"
    ELSE "VERY LOW"

\* the tiers without the lowest one
classify_competition_four_tiers(score) ==
    IF RLeq(Frac(7, 10), score) THEN "VERY HIGH"
    ELSE IF RLeq(Frac(5, 10), score) THEN "HIGH"
    ELSE IF RLeq(Frac(3, 10), score) THEN "MEDIUM"
    ELSE "LOW"

classify_competition(score) ==
    IF RLeq(Frac(7, 10), score) THEN "VERY HIGH"
    ELSE IF RLeq(Frac(5, 10), score) THEN "HIGH"
    ELSE IF RLeq(Frac(3, 10), score) THEN "MEDIUM"
    ELSE IF RLeq(Frac(1, 10), score) THEN "LOW"
    ELSE "VERY LOW"

----------------------------------------------------------------------------
(* CourseMatcherAI._generate_summary *)

RAdd(x, y) == Frac(x.num * y.den + y.num * x.den, x.den * y.den)

RECURSIVE SumMatchPercentage(_)
SumMatchPercentage(competitors) ==
    IF competitors = <<>> THEN RZero
    ELSE RAdd(SumMatchPercentage(SubSeq(competitors, 1, Len(competitors) - 1)),
              competitors[Len(competitors)].match_percentage)

\* the ascending sort read backwards: competitors of equal score change places
RECURSIVE SortedByScore_reversed(_)
SortedByScore_reversed(competitors) ==
    IF competitors = <<>> THEN <<>>
    ELSE LET init == SortedByScore_reversed(SubSeq(competitors, 1, Len(competitors) - 1))
             c == competitors[Len(competitors)]
             ahead == SelectSeq(init, LAMBDA x : RLess(c.competition_score, x.competition_score))
             behind == SelectSeq(init, LAMBDA x : RLeq(x.competition_score, c.competition_score))
         IN  ahead \o <<c>> \o behind

\* sorted(competitors, key=competition_score, reverse=True): stable, so
\* competitors of equal score keep their order
RECURSIVE SortedByScore(_)
SortedByScore(competitors) ==
    IF competitors = <<>> THEN <<>>
    ELSE LET init == SortedByScore(SubSeq(competitors, 1, Len(competitors) - 1))
             c == competitors[Len(competitors)]
             ahead == SelectSeq(init, LAMBDA x : RLeq(c.competition_score, x.competition_score))
             behind == SelectSeq(init, LAMBDA x : RLess(x.competition_score, c.competition_score))
         IN  ahead \o <<c>> \o behind

CountWhere(competitors, P(_)) == Len(SelectSeq(competitors, P))

\* how many competitors biggest_competitors lists
TopCompetitors == 5

\* the summary with low_competition counting the scores from 0.1 to 0.3 only
generate_summary_low_tier_only(competitors) ==
    IF competitors = <<>>
    THEN [total_competitors_analyzed |-> 0,
          very_high_competition |-> 0,
          high_competition |-> 0,
          medium_competition |-> 0,
          low_competition |-> 0,
          average_match_percentage |-> RZero,
          biggest_competitors |-> <<>>]
    ELSE LET sorted_comps == SortedByScore(competitors)
             top == Take(sorted_comps, TopCompetitors)
         IN  [total_competitors_analyzed |-> Len(competitors),
              very_high_competition |->
                  CountWhere(competitors, LAMBDA c : RLeq(Frac(7, 10), c.competition_score)),
              high_competition |->
                  CountWhere(competitors, LAMBDA c : /\ RLeq(Frac(5, 10), c.competition_score)
                                                     /\ RLess(c.competition_score, Frac(7, 10))),
              medium_competition |->
                  CountWhere(competitors, LAMBDA c : /\ RLeq(Frac(3, 10), c.competition_score)
                                                     /\ RLess(c.competition_score, Frac(5, 10))),
              low_competition |->
                  CountWhere(competitors, LAMBDA c : /\ RLeq(Frac(1, 10), c.competition_score)
                                                     /\ RLess(c.competition_score, Frac(3, 10))),
              average_match_percentage |->
                  LET total == SumMatchPercentage(competitors)
                  IN  Frac(total.num, total.den * Len(competitors)),
              biggest_competitors |->
                  [i \in 1..Len(top) |-> [name |-> top[i].name,
                                          score |-> top[i].competition_score,
                                          matches |-> top[i].exact_match_count]]]

generate_summary(competitors) ==
    IF competitors = <<>>
    THEN [total_competitors_analyzed |-> 0,
          very_high_competition |-> 0,
          high_competition |-> 0,
          medium_competition |-> 0,
          low_competition |-> 0,
          average_match_percentage |-> RZero,
          biggest_competitors |-> <<>>]
    ELSE LET sorted_comps == SortedByScore(competitors)
             top == Take(sorted_comps, TopCompetitors)
         IN  [total_competitors_analyzed |-> Len(competitors),
              very_high_competition |->
                  CountWhere(competitors, LAMBDA c : RLeq(Frac(7, 10), c.competition_score)),
              high_competition |->
                  CountWhere(competitors, LAMBDA c : /\ RLeq(Frac(5, 10), c.competition_score)
                                                     /\ RLess(c.competition_score, Frac(7, 10))),
              medium_competition |->
                  CountWhere(competitors, LAMBDA c : /\ RLeq(Frac(3, 10), c.competition_score)
                                                     /\ RLess(c.competition_score, Frac(5, 10))),
              low_competition |->
                  CountWhere(competitors, LAMBDA c : RLess(c.competition_score, Frac(3, 10))),
              average_match_percentage |->
                  LET total == SumMatchPercentage(competitors)
                  IN  Frac(total.num, total.den * Len(competitors)),
              biggest_competitors |->
                  [i \in 1..Len(top) |-> [name |-> top[i].name,
                                          score |-> top[i].competition_score,
                                          matches |-> top[i].exact_match_count]]]

----------------------------------------------------------------------------
(* CourseMatcherAI.match_courses *)

\* how many items of unique_to_competitor and unique_to_yours are reported
UniqueShown == 10

\* the unique list with the close matches left in
unique_to_competitor_keeping_close(comp_courses, exact_matches, close_matches) ==
    SelectSeq(comp_courses, LAMBDA c : c \notin Range(exact_matches))

\* [c for c in comp_courses if c not in exact_matches
\*                             and c not in [m[0] for m in close_matches]]
unique_to_competitor_of(comp_courses, exact_matches, close_matches) ==
    SelectSeq(comp_courses, LAMBDA c : /\ c \notin Range(exact_matches)
                                       /\ c \notin {m[1] : m \in Range(close_matches)})

\* [c for c in your_courses_list if c not in exact_matches
\*                                  and c not in [m[1] for m in close_matches]]
unique_to_yours_of(your_courses_list, exact_matches, close_matches) ==
    SelectSeq(your_courses_list, LAMBDA c : /\ c \notin Range(exact_matches)
                                            /\ c \notin {m[2] : m \in Range(close_matches)})

\* the arguments of the scorer call in match_courses
match_score_args(exact_matches, close_matches, comp_courses) ==
    <<Len(exact_matches), Len(close_matches), Len(comp_courses)>>

\* one pass of the loop over competitor_courses.items(): the competitor_info
\* appended to report['competitors'] (url is carried over unread, and left out)
competitor_entry(your_courses_list, comp) ==
    LET comp_courses == comp.normalized_courses
        exact_matches == find_exact_matches(your_courses_list, comp_courses)
        close_matches == find_close_matches(your_courses_list, comp_courses,
                                            Range(exact_matches))
        unique_to_competitor ==
            unique_to_competitor_of(comp_courses, exact_matches, close_matches)
        unique_to_yours ==
            unique_to_yours_of(your_courses_list, exact_matches, close_matches)
        args == match_score_args(exact_matches, close_matches, comp_courses)
        competition_score == calculate_competition_score(args[1], args[2], args[3])
    IN  [name |-> comp.name,
         total_courses |-> Len(comp_courses),
         exact_matches |-> exact_matches,
         exact_match_count |-> Len(exact_matches),
         close_matches |-> close_matches,
         close_match_count |-> Len(close_matches),
         unique_to_competitor |-> Take(unique_to_competitor, UniqueShown),
         unique_to_yours |-> Take(unique_to_yours, UniqueShown),
         competition_level |-> classify_competition(competition_score),
         competition_score |-> competition_score,
         match_percentage |->
             IF comp_courses # <<>>
             THEN Frac(Len(exact_matches) * 100, Len(comp_courses))
             ELSE RZero]

\* the report of match_courses for a configured college id
match_courses(programs, comp_courses_arg) ==
    LET your_courses_list == normalize_programs(programs)
        competitors == [i \in 1..Len(comp_courses_arg) |->
                            competitor_entry(your_courses_list, comp_courses_arg[i])]
    IN  [your_college |-> [total_courses |-> Len(your_courses_list),
                           courses |-> your_courses_list],
         competitors |-> competitors,
         summary |-> generate_summary(competitors)]

----------------------------------------------------------------------------
(* interactive_analyzer.run_analysis: the loop that fills report['competitors'] *)

\* _find_close_matches is called without exclude, which then is set()
NoExclude == {}

\* the arguments of the scorer call in run_analysis
interactive_score_args(matches, close_matches, selected_courses) ==
    <<Len(matches), Len(close_matches), Len(selected_courses)>>

interactive_entry(selected_courses, competitor_programs_list) ==
    LET matches == find_exact_matches(selected_courses, competitor_programs_list)
        close_matches == find_close_matches(selected_courses, competitor_programs_list,
                                            NoExclude)
        args == interactive_score_args(matches, close_matches, selected_courses)
        competition_score == calculate_competition_score(args[1], args[2], args[3])
    IN  [exact_matches |-> matches,
         similar_matches |-> close_matches,
         competition_score |-> competition_score,
         competitor_total_programs |-> Len(competitor_programs_list)]

\* competitor_programs maps the scraped name to the scraped programs
run_analysis(selected_courses, competitor_programs) ==
    [selected_courses |-> selected_courses,
     competitors |-> [i \in 1..Len(competitor_programs) |->
                          [name |-> competitor_programs[i].name,
                           entry |-> interactive_entry(selected_courses,
                                                       competitor_programs[i].programs)]]]

----------------------------------------------------------------------------
(* CourseMatcherAI.detect_competitor_courses: the entry kept for one scrape *)

detected_entry(college_name, programs) ==
    LET normalized_programs == normalize_programs(programs)
    IN  [name |-> college_name,
         raw_courses |-> programs,
         normalized_courses |-> normalized_programs,
         course_count |-> Len(normalized_programs)]

----------------------------------------------------------------------------
(* Inputs *)

s_a == <<"a">>
s_A_ == <<"A", " ">>
s_ab == <<"a", " ", "b">>
s_abc == <<"a", " ", "b", " ", "c">>
s_abde == <<"a", " ", "b", " ", "d", " ", "e">>

\* program names as configured or scraped
RawPool == {s_a, s_A_, s_ab, s_abc, s_abde}

\* a catalogue of one-word program names, one longer than the unique lists show
CatalogueMarks == <<"0", "1", "2", "3", "4", "5", "6", "7", "8", "9", "x">>
Catalogue == [i \in 1..Len(CatalogueMarks) |-> <<"m", CatalogueMarks[i]>>]

Lists(pool, n) == UNION {[1..k -> pool] : k \in 0..n}

CatalogueLists == {SubSeq(Catalogue, 1, n) : n \in {Len(Catalogue) - 1, Len(Catalogue)}}

ProgramLists == Lists(RawPool, MaxLen) \cup CatalogueLists

\* what a second competitor offers
OtherProgramLists == {<<>>, <<s_a>>, <<s_abc, s_ab>>}

CompetitorInputs ==
    {<<>>}
    \cup {<<detected_entry("c1", l)>> : l \in ProgramLists}
    \cup {<<detected_entry("c1", l), detected_entry("c2", k)>> :
              l \in ProgramLists, k \in OtherProgramLists}

\* a region with more competitors than biggest_competitors lists; against the
\* home program "a" their offers score 0, 0.25, 1/3, 0.5 and 1
RegionOffers ==
    {<<>>,
     <<s_ab, Catalogue[1], Catalogue[2], Catalogue[3]>>,
     <<s_ab, Catalogue[1], Catalogue[2]>>,
     <<s_abc, s_ab>>,
     <<s_a>>}

RegionNames == <<"c1", "c2", "c3", "c4", "c5", "c6">>

RegionInputs ==
    {[i \in DOMAIN RegionNames |-> detected_entry(RegionNames[i], offers[i])] :
         offers \in [DOMAIN RegionNames -> RegionOffers]}

RegionHomes == {<<s_a>>}

\* the configured programs and the competitor_courses argument of a call
MatchInputs == (ProgramLists \X CompetitorInputs) \cup (RegionHomes \X RegionInputs)

\* what select_courses can return: all courses, or a choice of them
Selections(all_courses) ==
    {all_courses} \cup {<<all_courses[i]>> : i \in DOMAIN all_courses}

----------------------------------------------------------------------------
(* The scorer called on its own *)

IdleMatch ==
    /\ your_programs = <<>>
    /\ competitor_courses = <<>>
    /\ report = None
    /\ report_again = None
    /\ ireport = None
    /\ scorer_calls = {}

IdleScore ==
    /\ score_args = <<0, 0, 0>>
    /\ score_result = None

IdleHelper ==
    /\ helper_call = None
    /\ helper_result = None

IdleScrape ==
    /\ scrape_url = None
    /\ scrape_attempt = 0
    /\ scrape_requests = <<>>
    /\ scrape_returned = None

IdleCompare ==
    /\ my_college = None
    /\ competitor = None
    /\ comparison = None

\* the database as init_database leaves a new file: the three tables, empty
EmptyDatabase ==
    /\ db_my_college = None
    /\ db_competitors = <<>>
    /\ db_comparisons = <<>>
    /\ results = <<>>
    /\ calls_made = <<>>

InitScore ==
    /\ score_args \in (0..MaxCount) \X (0..MaxCount) \X (0..MaxCount)
    /\ score_result = None
    /\ IdleMatch
    /\ IdleCompare
    /\ EmptyDatabase
    /\ IdleScrape
    /\ IdleHelper

CallScore ==
    /\ score_result = None
    /\ score_result' = calculate_competition_score(score_args[1], score_args[2],
                                                   score_args[3])
    /\ UNCHANGED <<score_args, helperVars, scrapeVars, matchVars, compareVars, dbVars>>

NextScore == CallScore

SpecScore == InitScore /\ [][NextScore]_vars

----------------------------------------------------------------------------
(* match_courses and run_analysis on a configured college and its competitors *)

InitMatch ==
    /\ \E input \in MatchInputs :
          /\ your_programs = input[1]
          /\ competitor_courses = input[2]
    /\ report = None
    /\ report_again = None
    /\ ireport = None
    /\ scorer_calls = {}
    /\ IdleScore
    /\ IdleCompare
    /\ EmptyDatabase
    /\ IdleScrape
    /\ IdleHelper

\* the call taking the matched courses out of the competitor's own list
MatchCourses_removing_matched ==
    /\ report = None
    /\ ireport = None
    /\ report' = match_courses(your_programs, competitor_courses)
    /\ competitor_courses' =
           [i \in DOMAIN competitor_courses |->
                [competitor_courses[i] EXCEPT !.normalized_courses =
                     unique_to_competitor_of(competitor_courses[i].normalized_courses,
                                             report'.competitors[i].exact_matches,
                                             report'.competitors[i].close_matches)]]
    /\ UNCHANGED <<your_programs, report_again, ireport, scorer_calls>>
    /\ UNCHANGED <<scoreVars, helperVars, scrapeVars, compareVars, dbVars>>

\* CourseMatcherAI.match_courses(your_college_id, competitor_courses)
MatchCourses ==
    /\ report = None
    /\ ireport = None
    /\ report' = match_courses(your_programs, competitor_courses)
    /\ scorer_calls' =
           {[site |-> "match_courses",
             competitor |-> competitor_courses[i].name,
             args |-> match_score_args(report'.competitors[i].exact_matches,
                                       report'.competitors[i].close_matches,
                                       competitor_courses[i].normalized_courses),
             courses_of_competitor |-> Len(competitor_courses[i].normalized_courses)] :
                i \in DOMAIN competitor_courses}
    /\ UNCHANGED <<your_programs, competitor_courses, report_again, ireport>>
    /\ UNCHANGED <<scoreVars, helperVars, scrapeVars, compareVars, dbVars>>

\* the same call once more: the same college id, the same competitor_courses
\* object, the configuration as the first call left it
MatchCoursesAgain ==
    /\ report # None
    /\ report_again = None
    /\ report_again' = match_courses(your_programs, competitor_courses)
    /\ UNCHANGED <<your_programs, competitor_courses, report, ireport, scorer_calls>>
    /\ UNCHANGED <<scoreVars, helperVars, scrapeVars, compareVars, dbVars>>

\* run_analysis(college_id, college, selected_courses, radius_miles) from the
\* point where the competitors are scraped: the matching loop that fills the
\* report; main() leaves before the call when nothing is selected
RunAnalysis ==
    /\ report = None
    /\ ireport = None
    /\ \E selected_courses \in Selections(your_programs) :
          /\ selected_courses # <<>>
          /\ ireport' = run_analysis(selected_courses,
                                     [i \in DOMAIN competitor_courses |->
                                          [name |-> competitor_courses[i].name,
                                           programs |-> competitor_courses[i].raw_courses]])
          /\ scorer_calls' =
                 {[site |-> "run_analysis",
                   competitor |-> competitor_courses[i].name,
                   args |-> interactive_score_args(
                                ireport'.competitors[i].entry.exact_matches,
                                ireport'.competitors[i].entry.similar_matches,
                                selected_courses),
                   courses_of_competitor |-> Len(competitor_courses[i].raw_courses)] :
                      i \in DOMAIN competitor_courses}
    /\ UNCHANGED <<your_programs, competitor_courses, report, report_again>>
    /\ UNCHANGED <<scoreVars, helperVars, scrapeVars, compareVars, dbVars>>

NextMatch == MatchCourses \/ MatchCoursesAgain \/ RunAnalysis

SpecMatch == InitMatch /\ [][NextMatch]_vars

----------------------------------------------------------------------------
(* CompetitionAnalyzer (analyzer.py) *)

\* a metric that is present
Some(v) == [value |-> v]

Abs(n) == IF n < 0 THEN -n ELSE n
Max(a, b) == IF a > b THEN a ELSE b

RHalf == Frac(1, 2)

----------------------------------------------------------------------------
(* Python floats that are sums and products of quotients: IEEE 754 binary64, *)
(* round to nearest, ties to the even significand.  A natural number is a   *)
(* sequence of limbs, least significant first, without leading zero limbs;  *)
(* a float is m * 2^e with 2^52 <= m < 2^53, or zero.                       *)

\* bits of a limb, and bits of the significand of a binary64
LimbBits == 14
MantissaBits == 53

Limb == 2^LimbBits

RECURSIVE BigTrim(_)
BigTrim(x) ==
    IF x = <<>> THEN x
    ELSE IF x[Len(x)] = 0 THEN BigTrim(SubSeq(x, 1, Len(x) - 1)) ELSE x

RECURSIVE BigAddCarry(_, _, _)
BigAddCarry(x, y, carry) ==
    IF x = <<>> /\ y = <<>> THEN (IF carry = 0 THEN <<>> ELSE <<carry>>)
    ELSE LET a == IF x = <<>> THEN 0 ELSE Head(x)
             b == IF y = <<>> THEN 0 ELSE Head(y)
             s == a + b + carry
         IN  <<s % Limb>> \o BigAddCarry(IF x = <<>> THEN x ELSE Tail(x),
                                         IF y = <<>> THEN y ELSE Tail(y),
                                         s \div Limb)

BigAdd(x, y) == BigTrim(BigAddCarry(x, y, 0))

RECURSIVE BigMulSmallCarry(_, _, _)
BigMulSmallCarry(x, k, carry) ==
    IF x = <<>> THEN (IF carry = 0 THEN <<>> ELSE <<carry>>)
    ELSE LET s == Head(x) * k + carry
         IN  <<s % Limb>> \o BigMulSmallCarry(Tail(x), k, s \div Limb)

\* x * k for a k below the limb base
BigMulSmall(x, k) == BigTrim(BigMulSmallCarry(x, k, 0))

RECURSIVE BigMul(_, _)
BigMul(x, y) ==
    IF x = <<>> \/ y = <<>> THEN <<>>
    ELSE LET rest == BigMul(x, Tail(y))
         IN  BigAdd(BigMulSmall(x, Head(y)),
                    IF rest = <<>> THEN rest ELSE <<0>> \o rest)

\* x \div d and x % d for a d below the limb base: [quot, rem]
RECURSIVE BigDivSmall(_, _)
BigDivSmall(x, d) ==
    IF x = <<>> THEN [quot |-> <<>>, rem |-> 0]
    ELSE LET high == BigDivSmall(Tail(x), d)
             cur == high.rem * Limb + Head(x)
         IN  [quot |-> BigTrim(<<cur \div d>> \o high.quot), rem |-> cur % d]

RECURSIVE BitsOf(_)
BitsOf(n) == IF n = 0 THEN 0 ELSE 1 + BitsOf(n \div 2)

BitLength(x) == IF x = <<>> THEN 0 ELSE (Len(x) - 1) * LimbBits + BitsOf(x[Len(x)])

\* bit j of x, bit 0 the least significant
Bit(x, j) ==
    LET i == (j \div LimbBits) + 1
    IN  IF i > Len(x) THEN 0 ELSE (x[i] \div 2^(j % LimbBits)) % 2

\* the bits of x below bit j are all zero
LowBitsZero(x, j) ==
    /\ \A i \in 1..(j \div LimbBits) : i > Len(x) \/ x[i] = 0
    /\ LET i == (j \div LimbBits) + 1
       IN  i > Len(x) \/ x[i] % 2^(j % LimbBits) = 0

ShiftLeft(x, k) ==
    IF x = <<>> THEN x
    ELSE [i \in 1..(k \div LimbBits) |-> 0] \o BigMulSmall(x, 2^(k % LimbBits))

ShiftRight(x, k) ==
    LET limbs == k \div LimbBits
        r == k % LimbBits
        y == IF limbs >= Len(x) THEN <<>> ELSE SubSeq(x, limbs + 1, Len(x))
    IN  BigTrim([i \in 1..Len(y) |->
                    (y[i] \div 2^r)
                    + (IF i < Len(y) THEN (y[i + 1] % 2^r) * 2^(LimbBits - r) ELSE 0)])

RECURSIVE BigLessFrom(_, _, _)
BigLessFrom(x, y, i) ==
    IF i = 0 THEN FALSE
    ELSE IF x[i] # y[i] THEN x[i] < y[i]
    ELSE BigLessFrom(x, y, i - 1)

BigLess(x, y) ==
    IF Len(x) # Len(y) THEN Len(x) < Len(y) ELSE BigLessFrom(x, y, Len(x))

FZero == [m |-> <<>>, e |-> 0]

\* the float nearest to n * 2^e, ties to the even significand
FRound(n, e) ==
    IF n = <<>> THEN FZero
    ELSE LET len == BitLength(n)
         IN  IF len <= MantissaBits
             THEN [m |-> ShiftLeft(n, MantissaBits - len), e |-> e - (MantissaBits - len)]
             ELSE LET k == len - MantissaBits
                      q == ShiftRight(n, k)
                      up == /\ Bit(n, k - 1) = 1
                            /\ (~LowBitsZero(n, k - 1) \/ Bit(q, 0) = 1)
                      r == IF up THEN BigAdd(q, <<1>>) ELSE q
                  IN  IF BitLength(r) > MantissaBits
                      THEN [m |-> ShiftRight(r, 1), e |-> e + k + 1]
                      ELSE [m |-> r, e |-> e + k]

\* the float n / d of two small naturals, which is also the value of the
\* decimal literal that n / d writes out (0.70 is 7 / 10)
FQuot(n, d) ==
    IF n = 0 THEN FZero
    ELSE LET scaled == BigDivSmall(ShiftLeft(<<n>>, 5 * LimbBits), d)
             sticky == IF scaled.rem = 0 THEN 0 ELSE 1
         IN  FRound(BigAdd(BigMulSmall(scaled.quot, 2), <<sticky>>), -(5 * LimbBits) - 1)

FOf(x) == FQuot(x.num, x.den)

FAdd(x, y) ==
    IF x = FZero THEN y
    ELSE IF y = FZero THEN x
    ELSE LET e == IF x.e < y.e THEN x.e ELSE y.e
         IN  FRound(BigAdd(ShiftLeft(x.m, x.e - e), ShiftLeft(y.m, y.e - e)), e)

FMul(x, y) ==
    IF x = FZero \/ y = FZero THEN FZero
    ELSE FRound(BigMul(x.m, y.m), x.e + y.e)

FLess(x, y) ==
    IF y = FZero THEN FALSE
    ELSE IF x = FZero THEN TRUE
    ELSE IF x.e # y.e THEN x.e < y.e
    ELSE BigLess(x.m, y.m)

----------------------------------------------------------------------------
(* CompetitionAnalyzer: the similarities and the level *)

\* the similarity with an absent value counted as no similarity
compare_single_metric_absent_as_zero(val1, val2) ==
    IF val1 = None \/ val2 = None THEN RZero
    ELSE IF val1.value = 0 /\ val2.value = 0 THEN ROne
    ELSE LET max_val == Max(Abs(val1.value), Abs(val2.value))
         IN  IF max_val = 0 THEN ROne
             ELSE LET difference == Frac(Abs(val1.value - val2.value), max_val)
                  IN  IF RLess(ROne, difference) THEN RZero
                      ELSE Frac(difference.den - difference.num, difference.den)

\* _compare_single_metric(val1, val2)
compare_single_metric(val1, val2) ==
    IF val1 = None \/ val2 = None THEN RHalf
    ELSE IF val1.value = 0 /\ val2.value = 0 THEN ROne
    ELSE LET max_val == Max(Abs(val1.value), Abs(val2.value))
         IN  IF max_val = 0 THEN ROne
             ELSE LET difference == Frac(Abs(val1.value - val2.value), max_val)
                  IN  IF RLess(ROne, difference) THEN RZero
                      ELSE Frac(difference.den - difference.num, difference.den)

academic_metrics == <<"avg_gpa", "avg_sat", "avg_act", "acceptance_rate">>

RECURSIVE RSum(_)
RSum(scores) ==
    IF scores = <<>> THEN RZero
    ELSE RAdd(RSum(SubSeq(scores, 1, Len(scores) - 1)), scores[Len(scores)])

\* the mean over the metrics whose two values are truthy (a value 0 left out)
compare_metrics_truthy(college1, college2, metrics) ==
    LET both == SelectSeq(metrics, LAMBDA metric : /\ college1[metric] # None
                                                   /\ college2[metric] # None
                                                   /\ college1[metric].value # 0
                                                   /\ college2[metric].value # 0)
        valid_scores == [i \in 1..Len(both) |->
                             compare_single_metric(college1[both[i]], college2[both[i]])]
    IN  IF valid_scores # <<>>
        THEN LET total == RSum(valid_scores)
             IN  Frac(total.num, total.den * Len(valid_scores))
        ELSE RHalf

\* _compare_metrics(college1, college2, metrics)
compare_metrics(college1, college2, metrics) ==
    LET both == SelectSeq(metrics, LAMBDA metric : /\ college1[metric] # None
                                                   /\ college2[metric] # None)
        valid_scores == [i \in 1..Len(both) |->
                             compare_single_metric(college1[both[i]], college2[both[i]])]
    IN  IF valid_scores # <<>>
        THEN LET total == RSum(valid_scores)
             IN  Frac(total.num, total.den * Len(valid_scores))
        ELSE RHalf

\* the overlap without the early return for an empty set
compare_programs_no_early_return(college1, college2) ==
    LET programs1 == Range(college1.programs)
        programs2 == Range(college2.programs)
        overlap == Cardinality(programs1 \cap programs2)
        total == Cardinality(programs1 \cup programs2)
    IN  IF total > 0 THEN Frac(overlap, total) ELSE RHalf

\* _compare_programs(college1, college2)
compare_programs(college1, college2) ==
    LET programs1 == Range(college1.programs)
        programs2 == Range(college2.programs)
    IN  IF programs1 = {} \/ programs2 = {} THEN RHalf
        ELSE LET overlap == Cardinality(programs1 \cap programs2)
                 total == Cardinality(programs1 \cup programs2)
             IN  IF total > 0 THEN Frac(overlap, total) ELSE RHalf

\* the float sum of a list of floats, added from left to right
RECURSIVE FSum(_)
FSum(terms) ==
    IF Len(terms) = 1 THEN terms[1]
    ELSE FAdd(FSum(SubSeq(terms, 1, Len(terms) - 1)), terms[Len(terms)])

\* the weights of the program, academic and enrollment similarity, in hundredths
weights == <<70, 20, 10>>

\* (program_similarity * 0.70) + (academic_similarity * 0.20)
\*                              + (enrollment_similarity * 0.10)
weighted_similarity(program_similarity, academic_similarity, enrollment_similarity) ==
    LET similarities == <<program_similarity, academic_similarity, enrollment_similarity>>
    IN  FSum([i \in DOMAIN weights |-> FMul(FOf(similarities[i]), FQuot(weights[i], 100))])

\* the weighted sum returned whatever the program overlap is
calculate_similarity_ungated(college1, college2) ==
    LET program_similarity == compare_programs(college1, college2)
        academic_similarity == compare_metrics(college1, college2, academic_metrics)
        enrollment_similarity ==
            compare_single_metric(college1.enrollment, college2.enrollment)
    IN  weighted_similarity(program_similarity, academic_similarity,
                            enrollment_similarity)

\* _calculate_similarity(college1, college2)
calculate_similarity(college1, college2) ==
    LET program_similarity == compare_programs(college1, college2)
        academic_similarity == compare_metrics(college1, college2, academic_metrics)
        enrollment_similarity ==
            compare_single_metric(college1.enrollment, college2.enrollment)
    IN  IF RLess(program_similarity, Frac(1, 10))
        THEN FZero
        ELSE weighted_similarity(program_similarity, academic_similarity,
                                 enrollment_similarity)

\* the levels with a threshold met by the value on it as well
determine_competition_level_inclusive(similarity_score, college1, college2) ==
    LET program_overlap == compare_programs(college1, college2)
    IN  IF RLeq(Frac(6, 10), program_overlap) /\ ~FLess(similarity_score, FQuot(65, 100))
        THEN "HIGH"
        ELSE IF /\ RLeq(Frac(3, 10), program_overlap)
                /\ ~FLess(similarity_score, FQuot(45, 100))
        THEN "MEDIUM"
        ELSE IF RLeq(Frac(1, 10), program_overlap) THEN "LOW"
        ELSE "NONE"

\* _determine_competition_level(similarity_score, my_college, competitor)
determine_competition_level(similarity_score, college1, college2) ==
    LET program_overlap == compare_programs(college1, college2)
    IN  IF RLess(Frac(6, 10), program_overlap) /\ FLess(FQuot(65, 100), similarity_score)
        THEN "HIGH"
        ELSE IF /\ RLess(Frac(3, 10), program_overlap)
                /\ FLess(FQuot(45, 100), similarity_score)
        THEN "MEDIUM"
        ELSE IF RLess(Frac(1, 10), program_overlap) THEN "LOW"
        ELSE "NONE"

\* _generate_analysis: of the text, the line that names the level
generate_analysis(competition_level) == "- Competition Level: " \o competition_level

\* what compare_colleges returns once score and level are known
with_analysis(similarity_score, competition_level) ==
    [similarity_score |-> similarity_score,
     competition_level |-> competition_level,
     analysis |-> generate_analysis(competition_level)]

\* what compare_colleges returns once the score is known
with_competition_level(similarity_score, college1, college2) ==
    with_analysis(similarity_score,
                  determine_competition_level(similarity_score, college1, college2))

\* compare_colleges(my_college, competitor)
compare_colleges(college1, college2) ==
    with_competition_level(calculate_similarity(college1, college2), college1, college2)

----------------------------------------------------------------------------
(* compare_colleges called on two profiles *)

\* the first programs of the catalogue: lists that share 1 of 10 programs
\* (0.1), 3 of 10 (0.3), 3 of 5 (0.6), 1 of 11
CataloguePrefixes == {SubSeq(Catalogue, 1, n) : n \in {1, 3, 5, 10, 11}}

\* the program lists of a profile
ProfileProgramLists ==
    Lists({s_a, s_A_}, MaxLen) \cup {<<s_a, s_ab>>} \cup CataloguePrefixes

\* the metrics of a profile; avg_act and acceptance_rate are not scraped
ProfileMetrics ==
    [avg_gpa : {None, Some(0), Some(1), Some(2)},
     avg_sat : {None, Some(4)},
     avg_act : {None},
     acceptance_rate : {None},
     enrollment : {None, Some(2)}]

\* no metric found on the page
NoMetrics ==
    [avg_gpa |-> None, avg_sat |-> None, avg_act |-> None,
     acceptance_rate |-> None, enrollment |-> None]

Profile(programs, metrics) ==
    [programs |-> programs,
     avg_gpa |-> metrics.avg_gpa,
     avg_sat |-> metrics.avg_sat,
     avg_act |-> metrics.avg_act,
     acceptance_rate |-> metrics.acceptance_rate,
     enrollment |-> metrics.enrollment]

Profiles == {Profile(l, m) : l \in ProfileProgramLists, m \in ProfileMetrics}

InitCompare ==
    /\ my_college \in Profiles
    /\ competitor \in Profiles
    /\ comparison = None
    /\ IdleScore
    /\ IdleMatch
    /\ EmptyDatabase
    /\ IdleScrape
    /\ IdleHelper

\* CompetitionAnalyzer.compare_colleges(my_college, competitor)
CompareColleges ==
    /\ comparison = None
    /\ comparison' = compare_colleges(my_college, competitor)
    /\ UNCHANGED <<my_college, competitor>>
    /\ UNCHANGED <<scoreVars, helperVars, scrapeVars, matchVars, dbVars>>

NextCompare == CompareColleges

SpecCompare == InitCompare /\ [][NextCompare]_vars

----------------------------------------------------------------------------
(* The classifiers and the comparators called on their own *)

\* the scores the scorer returns for a competitor of up to MaxCourses courses
ScoreValues ==
    {calculate_competition_score(0, close_matches, competitor_total) :
         close_matches \in 0..MaxCourses, competitor_total \in 0..MaxCourses}

ClassifyCalls == {[fn |-> "_classify_competition", score |-> x] : x \in ScoreValues}

\* overall scores, in hundredths, around the thresholds 0.45 and 0.65
SimilarityPercents == {0, 44, 45, 46, 50, 64, 65, 66, 100}

ProgramProfiles == {Profile(l, NoMetrics) : l \in ProfileProgramLists}

LevelCalls ==
    {[fn |-> "_determine_competition_level", similarity_score |-> FQuot(k, 100),
      my_college |-> c1, competitor |-> c2] :
         k \in SimilarityPercents, c1 \in ProgramProfiles, c2 \in ProgramProfiles}

ProgramCalls ==
    {[fn |-> "_compare_programs", college1 |-> c1, college2 |-> c2] :
         c1 \in ProgramProfiles, c2 \in ProgramProfiles}

\* profiles that differ in their four academic metrics
AcademicMetrics ==
    [avg_gpa : {None, Some(0), Some(1), Some(2)},
     avg_sat : {None, Some(4)},
     avg_act : {None, Some(0)},
     acceptance_rate : {None, Some(1)},
     enrollment : {None}]

MetricProfiles == {Profile(<<>>, m) : m \in AcademicMetrics}

MetricCalls ==
    {[fn |-> "_compare_metrics", college1 |-> c1, college2 |-> c2,
      metrics |-> academic_metrics] :
         c1 \in MetricProfiles, c2 \in MetricProfiles}

\* the scorer called on two argument triples for the same competitor
ScoreCalls ==
    {[fn |-> "_calculate_competition_score",
      calls |-> <<<<e1, c1, competitor_total>>, <<e2, c2, competitor_total>>>>] :
         e1 \in 0..MaxCount, c1 \in 0..MaxCount, e2 \in 0..MaxCount,
         c2 \in 0..MaxCount, competitor_total \in 0..MaxCount}

HelperCalls ==
    ClassifyCalls \cup LevelCalls \cup ProgramCalls \cup MetricCalls \cup ScoreCalls

InitHelper ==
    /\ helper_call \in HelperCalls
    /\ helper_result = None
    /\ IdleScore
    /\ IdleMatch
    /\ IdleCompare
    /\ EmptyDatabase
    /\ IdleScrape

\* CourseMatcherAI._classify_competition(score)
ClassifyCompetition ==
    /\ helper_result = None
    /\ helper_call.fn = "_classify_competition"
    /\ helper_result' = [returned |-> classify_competition(helper_call.score)]
    /\ UNCHANGED <<helper_call, scrapeVars, scoreVars, matchVars, compareVars, dbVars>>

\* CompetitionAnalyzer._determine_competition_level(similarity_score,
\*                                                  my_college, competitor)
DetermineCompetitionLevel ==
    /\ helper_result = None
    /\ helper_call.fn = "_determine_competition_level"
    /\ helper_result' =
           [returned |-> determine_competition_level(helper_call.similarity_score,
                                                     helper_call.my_college,
                                                     helper_call.competitor)]
    /\ UNCHANGED <<helper_call, scrapeVars, scoreVars, matchVars, compareVars, dbVars>>

\* CompetitionAnalyzer._compare_programs(college1, college2)
ComparePrograms ==
    /\ helper_result = None
    /\ helper_call.fn = "_compare_programs"
    /\ helper_result' =
           [returned |-> compare_programs(helper_call.college1, helper_call.college2)]
    /\ UNCHANGED <<helper_call, scrapeVars, scoreVars, matchVars, compareVars, dbVars>>

\* CompetitionAnalyzer._compare_metrics(college1, college2, metrics)
CompareMetrics ==
    /\ helper_result = None
    /\ helper_call.fn = "_compare_metrics"
    /\ helper_result' =
           [returned |-> compare_metrics(helper_call.college1, helper_call.college2,
                                         helper_call.metrics)]
    /\ UNCHANGED <<helper_call, scrapeVars, scoreVars, matchVars, compareVars, dbVars>>

\* CourseMatcherAI._calculate_competition_score(exact_matches, close_matches,
\*                                              competitor_total), once per triple
CalculateCompetitionScores ==
    /\ helper_result = None
    /\ helper_call.fn = "_calculate_competition_score"
    /\ helper_result' =
           [returned |-> [i \in DOMAIN helper_call.calls |->
                              calculate_competition_score(helper_call.calls[i][1],
                                                          helper_call.calls[i][2],
                                                          helper_call.calls[i][3])]]
    /\ UNCHANGED <<helper_call, scrapeVars, scoreVars, matchVars, compareVars, dbVars>>

NextHelper ==
    \/ ClassifyCompetition
    \/ DetermineCompetitionLevel
    \/ ComparePrograms
    \/ CompareMetrics
    \/ CalculateCompetitionScores

SpecHelper == InitHelper /\ [][NextHelper]_vars

----------------------------------------------------------------------------
(* CollegeDatabase (database.py) and CollegeCompetitionAI (main.py) *)

\* how many rows comparison_results may hold before a call is left out
MaxComparisons == 2

\* the URLs analysed, and CollegeScraper._generate_college_id of each
\* (the scheme removed, "/" replaced by "_")
Urls == {"https://x", "https://y"}

generate_college_id(url) ==
    CASE url = "https://x" -> "x"
      [] url = "https://y" -> "y"

\* the profile stored by setup_my_college
HomeProfiles == {Profile(<<s_a, s_ab>>, NoMetrics)}

\* what a page can yield when scraped: name and profile
Pages ==
    {[name |-> "same", profile |-> Profile(<<s_a, s_ab>>, NoMetrics)],
     [name |-> "half", profile |-> Profile(<<s_a>>, NoMetrics)],
     [name |-> "other", profile |-> Profile(<<s_abc>>, NoMetrics)]}

\* scrape_college(url): None, or the college_data extracted from the page
ScrapeOutcomes == {None} \cup Pages

\* add_my_college: INSERT OR REPLACE under MY_COLLEGE_ID
add_my_college(college_data) == college_data

\* add_competitor as a plain INSERT
add_competitor_plain_insert(table, college_id, college_data) ==
    Append(table, [college_id |-> college_id, name |-> college_data.name,
                   profile |-> college_data.profile])

\* add_competitor: INSERT OR REPLACE on the UNIQUE college_id, which deletes
\* the row of that college_id, if any, and inserts the new row
add_competitor(table, college_id, college_data) ==
    Append(SelectSeq(table, LAMBDA row : row.college_id # college_id),
           [college_id |-> college_id, name |-> college_data.name,
            profile |-> college_data.profile])

\* _row_to_dict(row, 'competitor_colleges'): the columns by position, the
\* rowid dropped, programs read back from their JSON text
row_to_dict(row) ==
    [college_id |-> row.college_id, name |-> row.name, profile |-> row.profile]

\* get_all_competitors: SELECT * FROM competitor_colleges, each row as a dict
get_all_competitors(table) == [i \in DOMAIN table |-> row_to_dict(table[i])]

\* save_comparison: INSERT, under a new autoincrement id
save_comparison(table, competitor_id, similarity_score, competition_level, analysis) ==
    Append(table, [id |-> Len(table) + 1,
                   competitor_id |-> competitor_id,
                   similarity_score |-> similarity_score,
                   competition_level |-> competition_level,
                   analysis |-> analysis,
                   created_date |-> "CURRENT_TIMESTAMP"])

\* the rows of cr.*, cc.name for one comparison: one per competitor of its id
joined_rows(cr, competitors) ==
    [i \in DOMAIN competitors |->
         <<cr.id, cr.competitor_id, cr.similarity_score, cr.competition_level,
           cr.analysis, cr.created_date, competitors[i].name>>]

RECURSIVE joined(_, _)
joined(comparisons, competitors) ==
    IF comparisons = <<>> THEN <<>>
    ELSE joined_rows(Head(comparisons),
                     SelectSeq(competitors,
                               LAMBDA cc : cc.college_id = Head(comparisons).competitor_id))
         \o joined(Tail(comparisons), competitors)

\* ORDER BY cr.similarity_score DESC; rows of equal score stay in rowid order
RECURSIVE OrderedByScore(_)
OrderedByScore(rows) ==
    IF rows = <<>> THEN <<>>
    ELSE LET rest == OrderedByScore(Tail(rows))
         IN  SelectSeq(rest, LAMBDA r : FLess(Head(rows)[3], r[3]))
             \o <<Head(rows)>>
             \o SelectSeq(rest, LAMBDA r : ~FLess(Head(rows)[3], r[3]))

\* get_comparisons: comparison_results joined with competitor_colleges on the
\* college id, as tuples (id, competitor_id, similarity_score,
\* competition_level, analysis, created_date, competitor_name)
get_comparisons(comparisons, competitors) ==
    OrderedByScore(joined(comparisons, competitors))

\* c[-n] of a Python tuple
FromEnd(c, n) == c[Len(c) - n + 1]

\* how many comparisons top_competitors lists
TopShown == 10

\* the report once the three reads are made
competition_report(my_college_row, competitors, comparisons) ==
    LET high_competition == SelectSeq(comparisons, LAMBDA c : FromEnd(c, 3) = "HIGH")
        medium_competition == SelectSeq(comparisons, LAMBDA c : FromEnd(c, 3) = "MEDIUM")
        low_competition == SelectSeq(comparisons, LAMBDA c : FromEnd(c, 3) = "LOW")
    IN  [my_college |-> my_college_row,
         total_competitors_analyzed |-> Len(competitors),
         competition_summary |->
             [high_competition |-> Len(high_competition),
              medium_competition |-> Len(medium_competition),
              low_competition |-> Len(low_competition)],
         top_competitors |->
             [i \in 1..(IF Len(comparisons) < TopShown THEN Len(comparisons)
                        ELSE TopShown) |->
                  [name |-> FromEnd(comparisons[i], 1),
                   similarity_score |-> comparisons[i][3],
                   competition_level |-> comparisons[i][4]]],
         all_comparisons |-> comparisons]

\* CollegeCompetitionAI.get_competition_report()
get_competition_report(my_college_row, competitors_table, comparisons_table) ==
    competition_report(my_college_row, get_all_competitors(competitors_table),
                       get_comparisons(comparisons_table, competitors_table))

\* the entries of the call log
scrape_call(url, returned) ==
    [fn |-> "scrape_college", url |-> url, returned |-> returned]
add_competitor_call(college_id, college_data) ==
    [fn |-> "add_competitor", college_id |-> college_id, college_data |-> college_data]
compare_call(college_id, compared) ==
    [fn |-> "compare_colleges", college_id |-> college_id, returned |-> compared]
save_comparison_call(competitor_id, competition_level) ==
    [fn |-> "save_comparison", competitor_id |-> competitor_id,
     competition_level |-> competition_level]

\* the rest of a pass with the comparison saved whatever its level
store_compared_whatever_level(st, college_id, competitor_data, compared) ==
    [competitors |-> add_competitor(st.competitors, college_id, competitor_data),
     comparisons |-> save_comparison(st.comparisons, college_id,
                                     compared.similarity_score,
                                     compared.competition_level, compared.analysis),
     results |-> Append(st.results,
                        [college_name |-> competitor_data.name,
                         similarity_score |-> compared.similarity_score,
                         competition_level |-> compared.competition_level,
                         programs |-> competitor_data.profile.programs,
                         analysis |-> compared.analysis]),
     calls |-> st.calls \o <<add_competitor_call(college_id, competitor_data),
                             compare_call(college_id, compared),
                             save_comparison_call(college_id,
                                                  compared.competition_level)>>]

\* the rest of a pass of the loop once the competitor is scraped and compared:
\* the competitor is stored (before the comparison is made), and the
\* comparison unless its level is NONE
store_compared(st, college_id, competitor_data, compared) ==
    LET stored == add_competitor(st.competitors, college_id, competitor_data)
        calls == st.calls \o <<add_competitor_call(college_id, competitor_data),
                               compare_call(college_id, compared)>>
    IN  IF compared.competition_level = "NONE"
        THEN [st EXCEPT !.competitors = stored, !.calls = calls]
        ELSE [competitors |-> stored,
              comparisons |-> save_comparison(st.comparisons, college_id,
                                              compared.similarity_score,
                                              compared.competition_level,
                                              compared.analysis),
              results |-> Append(st.results,
                                 [college_name |-> competitor_data.name,
                                  similarity_score |-> compared.similarity_score,
                                  competition_level |-> compared.competition_level,
                                  programs |-> competitor_data.profile.programs,
                                  analysis |-> compared.analysis]),
              calls |-> Append(calls,
                               save_comparison_call(college_id,
                                                    compared.competition_level))]

\* one pass of the loop of analyze_competitors over college_urls; st holds the
\* two tables, the results and the calls so far (geocoding only adds
\* coordinates, left out)
analyze_one(home, st, url, competitor_data) ==
    IF competitor_data = None
    THEN [st EXCEPT !.calls = Append(st.calls, scrape_call(url, None))]
    ELSE store_compared([st EXCEPT !.calls = Append(st.calls,
                                                    scrape_call(url, competitor_data))],
                        generate_college_id(url), competitor_data,
                        compare_colleges(home, competitor_data.profile))

RECURSIVE analyze_loop(_, _, _, _)
analyze_loop(home, st, college_urls, scraped) ==
    IF college_urls = <<>> THEN st
    ELSE analyze_loop(home, analyze_one(home, st, Head(college_urls), Head(scraped)),
                      Tail(college_urls), Tail(scraped))

InitAnalyze ==
    /\ EmptyDatabase
    /\ IdleScrape
    /\ IdleScore
    /\ IdleMatch
    /\ IdleCompare
    /\ IdleHelper

\* CollegeCompetitionAI.setup_my_college(college_data)
SetupMyCollege ==
    /\ \E college_data \in HomeProfiles :
          /\ db_my_college' = add_my_college(college_data)
          /\ calls_made' = <<[fn |-> "add_my_college", college_data |-> college_data]>>
    /\ UNCHANGED <<db_competitors, db_comparisons, results>>
    /\ UNCHANGED <<scoreVars, helperVars, scrapeVars, matchVars, compareVars>>

\* the tables and the returned results after the loop
written_back(st) ==
    /\ db_competitors' = st.competitors
    /\ db_comparisons' = st.comparisons
    /\ results' = st.results
    /\ calls_made' = st.calls

\* CollegeDatabase.add_competitor(college_data) called on its own, as the
\* importers do
AddCompetitor ==
    /\ \E url \in Urls, college_data \in Pages :
          /\ db_competitors' = add_competitor(db_competitors, generate_college_id(url),
                                              college_data)
          /\ calls_made' = <<add_competitor_call(generate_college_id(url), college_data)>>
    /\ UNCHANGED <<db_my_college, db_comparisons, results>>
    /\ UNCHANGED <<scoreVars, helperVars, scrapeVars, matchVars, compareVars>>

\* analyze_competitors scraping every URL before it looks for the home college
AnalyzeCompetitors_scraping_first ==
    /\ \E college_urls \in Lists(Urls, 2) :
          /\ Len(db_comparisons) + Len(college_urls) <= MaxComparisons
          /\ \E scraped \in [DOMAIN college_urls -> ScrapeOutcomes] :
                IF db_my_college = None
                THEN /\ results' = <<>>
                     /\ calls_made' = [i \in DOMAIN college_urls |->
                                           scrape_call(college_urls[i], scraped[i])]
                     /\ UNCHANGED <<db_competitors, db_comparisons>>
                ELSE written_back(analyze_loop(db_my_college,
                                               [competitors |-> db_competitors,
                                                comparisons |-> db_comparisons,
                                                results |-> <<>>,
                                                calls |-> <<>>],
                                               college_urls, scraped))
    /\ UNCHANGED db_my_college
    /\ UNCHANGED <<scoreVars, helperVars, scrapeVars, matchVars, compareVars>>

\* CollegeCompetitionAI.analyze_competitors(college_urls); scraped[i] is what
\* scrape_college returns for college_urls[i]
AnalyzeCompetitors ==
    /\ \E college_urls \in Lists(Urls, 2) :
          /\ Len(db_comparisons) + Len(college_urls) <= MaxComparisons
          /\ \E scraped \in [DOMAIN college_urls -> ScrapeOutcomes] :
                IF db_my_college = None
                THEN /\ results' = <<>>
                     /\ calls_made' = <<>>
                     /\ UNCHANGED <<db_competitors, db_comparisons>>
                ELSE written_back(analyze_loop(db_my_college,
                                               [competitors |-> db_competitors,
                                                comparisons |-> db_comparisons,
                                                results |-> <<>>,
                                                calls |-> <<>>],
                                               college_urls, scraped))
    /\ UNCHANGED db_my_college
    /\ UNCHANGED <<scoreVars, helperVars, scrapeVars, matchVars, compareVars>>

\* CollegeCompetitionAI.get_competition_report(): three reads, no write
GetCompetitionReport ==
    /\ calls_made' = <<[fn |-> "get_competition_report",
                        returned |-> get_competition_report(db_my_college,
                                                            db_competitors,
                                                            db_comparisons)]>>
    /\ UNCHANGED <<db_my_college, db_competitors, db_comparisons, results>>
    /\ UNCHANGED <<scoreVars, helperVars, scrapeVars, matchVars, compareVars>>

NextAnalyze ==
    \/ SetupMyCollege
    \/ AddCompetitor
    \/ AnalyzeCompetitors
    \/ GetCompetitionReport

SpecAnalyze == InitAnalyze /\ [][NextAnalyze]_vars

----------------------------------------------------------------------------
(* CollegeScraper.scrape_college (scraper.py) *)

\* config.MAX_RETRIES
MAX_RETRIES == 3

\* what session.get and raise_for_status can raise: a requests.RequestException
RequestErrors == {"Timeout", "ConnectionError", "HTTPError"}

\* the outcome of one request: an error raised, or a response whose page
\* _extract_college_data turns into the college_data
RequestOutcomes ==
    {[ok |-> FALSE, error |-> e] : e \in RequestErrors}
    \cup {[ok |-> TRUE, college_data |-> page] : page \in Pages}

InitScrape ==
    /\ scrape_url \in Urls
    /\ scrape_attempt = 0
    /\ scrape_requests = <<>>
    /\ scrape_returned = None
    /\ IdleScore
    /\ IdleHelper
    /\ IdleMatch
    /\ IdleCompare
    /\ EmptyDatabase

\* one pass of the retry loop making one request more than range(MAX_RETRIES)
Attempt_one_too_many ==
    /\ scrape_returned = None
    /\ IF scrape_attempt < MAX_RETRIES + 1
       THEN \E outcome \in RequestOutcomes :
               /\ scrape_requests' = Append(scrape_requests, outcome)
               /\ IF outcome.ok
                  THEN /\ scrape_returned' = [returned |-> outcome.college_data]
                       /\ UNCHANGED scrape_attempt
                  ELSE IF scrape_attempt = MAX_RETRIES
                       THEN /\ scrape_returned' = [returned |-> None]
                            /\ UNCHANGED scrape_attempt
                       ELSE /\ scrape_attempt' = scrape_attempt + 1
                            /\ UNCHANGED scrape_returned
       ELSE /\ scrape_returned' = [returned |-> None]
            /\ UNCHANGED <<scrape_attempt, scrape_requests>>
    /\ UNCHANGED scrape_url
    /\ UNCHANGED <<scoreVars, helperVars, matchVars, compareVars, dbVars>>

\* one pass of "for attempt in range(MAX_RETRIES)": the request, then the
\* return of the data or the handling of the RequestException; with the range
\* used up, the return None after the loop
Attempt ==
    /\ scrape_returned = None
    /\ IF scrape_attempt < MAX_RETRIES
       THEN \E outcome \in RequestOutcomes :
               /\ scrape_requests' = Append(scrape_requests, outcome)
               /\ IF outcome.ok
                  THEN /\ scrape_returned' = [returned |-> outcome.college_data]
                       /\ UNCHANGED scrape_attempt
                  ELSE IF scrape_attempt = MAX_RETRIES - 1
                       THEN /\ scrape_returned' = [returned |-> None]
                            /\ UNCHANGED scrape_attempt
                       ELSE /\ scrape_attempt' = scrape_attempt + 1
                            /\ UNCHANGED scrape_returned
       ELSE /\ scrape_returned' = [returned |-> None]
            /\ UNCHANGED <<scrape_attempt, scrape_requests>>
    /\ UNCHANGED scrape_url
    /\ UNCHANGED <<scoreVars, helperVars, matchVars, compareVars, dbVars>>

NextScrape == Attempt

SpecScrape == InitScrape /\ [][NextScrape]_vars

\* a request ends, by its response or by the timeout of SCRAPING_TIMEOUT
\* seconds, and the loop goes on: a pass that can be made is made
SpecScrapeLive == SpecScrape /\ WF_vars(Attempt)

----------------------------------------------------------------------------
(* CourseMatcherAI.detect_competitor_courses and generate_competition_report *)

\* the names the scraper finds on the competitors' pages
ReportNames == {"c1", "C 2"}

\* the programs it finds there
ReportOffers == {<<>>, <<s_a>>, <<s_ab, s_A_>>, Catalogue}

\* what scrape_college returns for a competitor URL: None, or the college_data
ReportPages == {[name |-> n, programs |-> l] : n \in ReportNames, l \in ReportOffers}
ReportOutcomes == {None} \cup ReportPages

\* the programs configured for the home college
ReportHomes == {<<s_a>>, <<s_a, s_ab>>, <<Catalogue[1]>>}

\* competitor_courses[college_name] = value: a new key goes to the end of the
\* dict, a key already there keeps its place and gets the new value
dict_set(dict, key, value) ==
    IF \E i \in DOMAIN dict : dict[i].name = key
    THEN [i \in DOMAIN dict |-> IF dict[i].name = key THEN value ELSE dict[i]]
    ELSE Append(dict, value)

\* the loop of detect_competitor_courses over competitor_urls; scraped[i] is
\* what scrape_college returns for the i-th URL
RECURSIVE detect_loop(_, _)
detect_loop(competitor_courses_so_far, scraped) ==
    IF scraped = <<>> THEN competitor_courses_so_far
    ELSE detect_loop(IF Head(scraped) = None
                     THEN competitor_courses_so_far
                     ELSE dict_set(competitor_courses_so_far, Head(scraped).name,
                                   detected_entry(Head(scraped).name,
                                                  Head(scraped).programs)),
                     Tail(scraped))

detect_competitor_courses(scraped) == detect_loop(<<>>, scraped)

\* re.sub(r"[^a-z0-9_]+", "_", name.lower()) for the names scraped
store_college_id(name) ==
    CASE name = "c1" -> "c1"
      [] name = "C 2" -> "c_2"

\* the competitor_data _store_competitors_in_db builds from a competitor_info
stored_competitor_data(competitor_info) ==
    [name |-> competitor_info.name,
     profile |-> Profile(competitor_info.unique_to_competitor, NoMetrics)]

\* the loop of _store_competitors_in_db over report['competitors']
RECURSIVE store_competitors_in_db(_, _)
store_competitors_in_db(table, competitors) ==
    IF competitors = <<>> THEN table
    ELSE store_competitors_in_db(
             add_competitor(table, store_college_id(Head(competitors).name),
                            stored_competitor_data(Head(competitors))),
             Tail(competitors))

\* the scraper calls of a detection
scrape_calls(competitor_urls, scraped) ==
    [i \in DOMAIN competitor_urls |-> scrape_call(competitor_urls[i], scraped[i])]

\* the add_competitor calls of _store_competitors_in_db
store_calls(competitors) ==
    [i \in DOMAIN competitors |->
         add_competitor_call(store_college_id(competitors[i].name),
                             stored_competitor_data(competitors[i]))]

\* the empty dict generate_competition_report returns when nothing was detected
EmptyReport == [competitors |-> <<>>]

InitReport ==
    /\ your_programs \in ReportHomes
    /\ competitor_courses = <<>>
    /\ report = None
    /\ report_again = None
    /\ ireport = None
    /\ scorer_calls = {}
    /\ IdleScore
    /\ IdleHelper
    /\ IdleCompare
    /\ EmptyDatabase
    /\ IdleScrape

\* CourseMatcherAI.detect_competitor_courses(competitor_urls)
DetectCompetitorCourses ==
    /\ report = None
    /\ calls_made = <<>>
    /\ \E competitor_urls \in Lists(Urls, 2) :
          \E scraped \in [DOMAIN competitor_urls -> ReportOutcomes] :
              /\ competitor_courses' = detect_competitor_courses(scraped)
              /\ calls_made' = scrape_calls(competitor_urls, scraped)
    /\ UNCHANGED <<your_programs, report, report_again, ireport, scorer_calls>>
    /\ UNCHANGED <<db_my_college, db_competitors, db_comparisons, results>>
    /\ UNCHANGED <<scoreVars, helperVars, scrapeVars, compareVars>>

\* the steps of generate_competition_report after the detection
matched_and_stored(match_report) ==
    /\ report' = match_report
    /\ db_competitors' = store_competitors_in_db(db_competitors, match_report.competitors)

\* CourseMatcherAI.generate_competition_report(your_college_id, competitor_urls)
GenerateCompetitionReport ==
    /\ report = None
    /\ calls_made = <<>>
    /\ \E competitor_urls \in Lists(Urls, 2) :
          \E scraped \in [DOMAIN competitor_urls -> ReportOutcomes] :
              /\ competitor_courses' = detect_competitor_courses(scraped)
              /\ IF competitor_courses' = <<>>
                 THEN /\ report' = EmptyReport
                      /\ calls_made' = scrape_calls(competitor_urls, scraped)
                      /\ UNCHANGED db_competitors
                 ELSE /\ matched_and_stored(match_courses(your_programs,
                                                          competitor_courses'))
                      /\ calls_made' = scrape_calls(competitor_urls, scraped)
                                           \o store_calls(report'.competitors)
    /\ UNCHANGED <<your_programs, report_again, ireport, scorer_calls>>
    /\ UNCHANGED <<db_my_college, db_comparisons, results>>
    /\ UNCHANGED <<scoreVars, helperVars, scrapeVars, compareVars>>

NextReport == DetectCompetitorCourses \/ GenerateCompetitionReport

SpecReport == InitReport /\ [][NextReport]_vars

----------------------------------------------------------------------------
(* Properties *)

Keywords(course) == Range(split(course))

\* |tokens(c) /\ tokens(h)| / |tokens(c) \/ tokens(h)| > 0.4, as 5 * shared > 2 * all
RatioAbove(c, h) ==
    5 * Cardinality(Keywords(c) \cap Keywords(h)) > 2 * Cardinality(Keywords(c) \cup Keywords(h))

\* the ratio of c and h is exactly shared / all
RatioIs(c, h, shared, all) ==
    /\ Cardinality(Keywords(c) \cap Keywords(h)) = shared
    /\ Cardinality(Keywords(c) \cup Keywords(h)) = all

NoRepetition(l) == \A i, j \in DOMAIN l : l[i] = l[j] => i = j

Smallest(S) == CHOOSE k \in S : \A m \in S : k <= m

\* the calls of _find_close_matches a state holds the result of:
\* [home, competitor, exclude, result]
CloseMatchCalls ==
    (IF report = None THEN {}
     ELSE {[home |-> report.your_college.courses,
            competitor |-> competitor_courses[i].normalized_courses,
            exclude |-> Range(report.competitors[i].exact_matches),
            result |-> report.competitors[i].close_matches] :
               i \in DOMAIN report.competitors})
    \cup
    (IF ireport = None THEN {}
     ELSE {[home |-> ireport.selected_courses,
            competitor |-> competitor_courses[i].raw_courses,
            exclude |-> {},
            result |-> ireport.competitors[i].entry.similar_matches] :
               i \in DOMAIN ireport.competitors})

\* the calls of _find_exact_matches a state holds the result of
ExactMatchCalls ==
    (IF report = None THEN {}
     ELSE {[home |-> report.your_college.courses,
            competitor |-> competitor_courses[i].normalized_courses,
            result |-> report.competitors[i].exact_matches] :
               i \in DOMAIN report.competitors})
    \cup
    (IF ireport = None THEN {}
     ELSE {[home |-> ireport.selected_courses,
            competitor |-> competitor_courses[i].raw_courses,
            result |-> ireport.competitors[i].entry.exact_matches] :
               i \in DOMAIN ireport.competitors})

\* C1: _calculate_competition_score returns 0.0 when competitor_total = 0 and
\* otherwise min(1.0, (2 * exact_count + close_count) / competitor_total).
C1_ScoreFormula ==
    score_result # None =>
        LET weighted == 2 * score_args[1] + score_args[2]
            total == score_args[3]
        IN  IF total = 0 THEN score_result.num = 0
            ELSE IF weighted >= total THEN score_result.num = score_result.den
            ELSE score_result.num * total = weighted * score_result.den

\* C1 witness: a call with exact and close matches whose quotient is below the cap
C1_UncappedScore ==
    /\ score_result # None
    /\ score_args[1] > 0
    /\ score_args[2] > 0
    /\ 2 * score_args[1] + score_args[2] < score_args[3]

C6_StrictThreshold ==
    \A call \in CloseMatchCalls :
        \A m \in Range(call.result) : RatioAbove(m[1], m[2])

\* C6 witness: a competitor item whose only home item shares 2 tokens out of 5
\* with it has been matched, and no pair is reported for it
C6_RatioExactlyAtThreshold ==
    \E call \in CloseMatchCalls :
        \E c \in Range(call.competitor) \ call.exclude :
            /\ call.home # <<>>
            /\ \A k \in DOMAIN call.home : RatioIs(c, call.home[k], 2, 5)
            /\ \A m \in Range(call.result) : m[1] # c

\* C7: in every competitor entry of a report of match_courses, no pair of
\* close_matches has a competitor program or a home program that is one of the
\* entry's exact_matches.
C7_ExactExcludedFromClose ==
    report # None =>
        \A i \in DOMAIN report.competitors :
            \A m \in Range(report.competitors[i].close_matches) :
                /\ m[1] \notin Range(report.competitors[i].exact_matches)
                /\ m[2] \notin Range(report.competitors[i].exact_matches)

\* C7 witness: an entry with an exact match that some other home program is
\* close to, and with a close match reported beside it
C7_ExactMatchWithCloseCandidate ==
    /\ report # None
    /\ \E i \in DOMAIN report.competitors :
          /\ report.competitors[i].close_matches # <<>>
          /\ \E c \in Range(report.competitors[i].exact_matches) :
                \E h \in Range(report.your_college.courses) :
                    h # c /\ RatioAbove(c, h)

\* C8: _find_exact_matches returns, without duplicates, exactly the strings that
\* occur in both lists, and as a set the result is the same with the two lists
\* exchanged.
C8_ExactMatchesSymmetric ==
    \A call \in ExactMatchCalls :
        /\ NoRepetition(call.result)
        /\ Range(call.result) = Range(call.home) \cap Range(call.competitor)
        /\ Range(find_exact_matches(call.competitor, call.home)) = Range(call.result)

\* C8 witness: a competitor list that names a matched program twice
C8_RepeatedMatch ==
    \E call \in ExactMatchCalls :
        \E i, j \in DOMAIN call.competitor :
            /\ i # j
            /\ call.competitor[i] = call.competitor[j]
            /\ call.competitor[i] \in Range(call.result)

\* the competitor's programs, in list order, that are neither exact matches
\* nor the competitor side of a close-match pair
NotMatchedOfCompetitor(i) ==
    SelectSeq(competitor_courses[i].normalized_courses,
              LAMBDA c : /\ \A x \in Range(report.competitors[i].exact_matches) : x # c
                         /\ \A m \in Range(report.competitors[i].close_matches) : m[1] # c)

\* the home programs, in list order, that are neither exact matches nor the
\* home side of a close-match pair
NotMatchedOfHome(i) ==
    SelectSeq(report.your_college.courses,
              LAMBDA c : /\ \A x \in Range(report.competitors[i].exact_matches) : x # c
                         /\ \A m \in Range(report.competitors[i].close_matches) : m[2] # c)

Prefix(l, n) == [k \in 1..(IF Len(l) < n THEN Len(l) ELSE n) |-> l[k]]

\* C9 as stated: in every competitor entry, unique_to_competitor is exactly the
\* set of the competitor's programs that are neither exact matches nor the
\* competitor side of a close match, and unique_to_yours is exactly the set of
\* such home programs.
C9_UniqueListsAreTheFullDifference ==
    report # None =>
        \A i \in DOMAIN report.competitors :
            /\ Range(report.competitors[i].unique_to_competitor)
                   = Range(NotMatchedOfCompetitor(i))
            /\ Range(report.competitors[i].unique_to_yours)
                   = Range(NotMatchedOfHome(i))

\* C9 as amended: unique_to_competitor lists the first 10, in list order, of the
\* competitor's programs that are neither exact matches nor the competitor side
\* of a close match (all of them when there are at most 10), and
\* unique_to_yours lists the first 10 of such home programs.
C9_UniqueListsAreTheFirstTen ==
    report # None =>
        \A i \in DOMAIN report.competitors :
            /\ report.competitors[i].unique_to_competitor
                   = Prefix(NotMatchedOfCompetitor(i), UniqueShown)
            /\ report.competitors[i].unique_to_yours
                   = Prefix(NotMatchedOfHome(i), UniqueShown)

\* C9 witness: an entry whose competitor has more unmatched programs than the
\* list shows, beside an entry with an exact and a close match left out of it
C9_MoreUniqueThanShown ==
    /\ report # None
    /\ \E i \in DOMAIN report.competitors :
          /\ Len(NotMatchedOfCompetitor(i)) > UniqueShown
          /\ Len(report.competitors[i].unique_to_competitor) = UniqueShown
    /\ \E i \in DOMAIN report.competitors :
          /\ report.competitors[i].close_matches # <<>>
          /\ report.competitors[i].unique_to_competitor # <<>>

\* C10: every call of the scorer passes, as its third argument, the number of
\* courses of the competitor being scored, in match_courses and in run_analysis.
C10_ThirdArgumentIsCompetitorTotal ==
    \A call \in scorer_calls : call.args[3] = call.courses_of_competitor

\* the overlap of two program lists as sets, |A /\ B| / |A \/ B| below 0.1
OverlapBelowGate(programs1, programs2) ==
    /\ programs1 # <<>>
    /\ programs2 # <<>>
    /\ 10 * Cardinality(Range(programs1) \cap Range(programs2))
           < Cardinality(Range(programs1) \cup Range(programs2))

\* C2: if the program overlap of the two profiles is below 0.1, compare_colleges
\* returns the score 0.0 and the level NONE, whatever the metrics are.
C2_GateLaw ==
    (comparison # None /\ OverlapBelowGate(my_college.programs, competitor.programs)) =>
        /\ comparison.similarity_score = FZero
        /\ comparison.competition_level = "NONE"

\* C2 witness: the gate closes on two profiles that share a program (1 of 11)
\* and agree on a metric and on the enrollment
C2_GateClosedDespiteMetrics ==
    /\ comparison # None
    /\ OverlapBelowGate(my_college.programs, competitor.programs)
    /\ Range(my_college.programs) \cap Range(competitor.programs) # {}
    /\ my_college.avg_gpa # None
    /\ my_college.avg_gpa = competitor.avg_gpa
    /\ my_college.enrollment # None
    /\ my_college.enrollment = competitor.enrollment

\* two program lists that differ only in letter case or surrounding whitespace
SameUpToCaseAndSpace(programs1, programs2) ==
    /\ Len(programs1) = Len(programs2)
    /\ \A i \in DOMAIN programs1 : strip(lower(programs1[i])) = strip(lower(programs2[i]))

\* C3: the program similarity of compare_colleges is computed on the lower-cased,
\* trimmed program names: two profiles whose program lists differ only in case
\* or surrounding whitespace have program similarity 1.0.
C3_SimilarityOnNormalizedNames ==
    (/\ comparison # None
     /\ my_college.programs # <<>>
     /\ SameUpToCaseAndSpace(my_college.programs, competitor.programs)) =>
        compare_programs(my_college, competitor) = ROne

\* C4: after any sequence of analyze_competitors calls the comparison log holds
\* at most one record per competitor identifier (a re-run supersedes the
\* earlier record of a competitor instead of adding to it).
C4_OneRecordPerCompetitor ==
    \A i, j \in DOMAIN db_comparisons :
        db_comparisons[i].competitor_id = db_comparisons[j].competitor_id => i = j

\* the calls of fn made on their own whose result the state holds
Returned(fn) == helper_result # None /\ helper_call.fn = fn

\* C11: _classify_competition maps a score to exactly one of five tiers:
\* VERY HIGH iff score >= 0.7, HIGH iff 0.5 <= score < 0.7, MEDIUM iff
\* 0.3 <= score < 0.5, LOW iff 0.1 <= score < 0.3, VERY LOW iff score < 0.1;
\* each boundary value belongs to the higher tier.
C11_FiveTiers ==
    Returned("_classify_competition") =>
        LET n == helper_call.score.num
            d == helper_call.score.den
            level == helper_result.returned
        IN  /\ level \in {"VERY HIGH", "HIGH", "MEDIUM", "LOW", "VERY LOW"}
            /\ level = "VERY HIGH" <=> 10 * n >= 7 * d
            /\ level = "HIGH" <=> (10 * n >= 5 * d /\ 10 * n < 7 * d)
            /\ level = "MEDIUM" <=> (10 * n >= 3 * d /\ 10 * n < 5 * d)
            /\ level = "LOW" <=> (10 * n >= 1 * d /\ 10 * n < 3 * d)
            /\ level = "VERY LOW" <=> 10 * n < 1 * d

\* C11 witness: the boundary score 0.1 has been classified, as LOW
C11_BoundaryClassified ==
    /\ Returned("_classify_competition")
    /\ helper_call.score = Frac(1, 10)
    /\ helper_result.returned = "LOW"

\* the program overlap p of two program lists is above tenths / 10: the
\* overlap is |A /\ B| / |A \/ B|, and 0.5 when a list is empty
OverlapAbove(programs1, programs2, tenths) ==
    IF programs1 = <<>> \/ programs2 = <<>> THEN 5 > tenths
    ELSE 10 * Cardinality(Range(programs1) \cap Range(programs2))
             > tenths * Cardinality(Range(programs1) \cup Range(programs2))

\* the overall score s is above hundredths / 100
ScoreAbove(similarity_score, hundredths) ==
    \E k \in SimilarityPercents : similarity_score = FQuot(k, 100) /\ k > hundredths

\* C12: _determine_competition_level gives HIGH iff p > 0.6 and s > 0.65,
\* otherwise MEDIUM iff p > 0.3 and s > 0.45, otherwise LOW iff p > 0.1,
\* otherwise NONE; the comparisons are strict, so a value on a threshold falls
\* in the lower tier.
C12_LevelFromOverlapAndScore ==
    Returned("_determine_competition_level") =>
        LET l1 == helper_call.my_college.programs
            l2 == helper_call.competitor.programs
            sc == helper_call.similarity_score
            high == OverlapAbove(l1, l2, 6) /\ ScoreAbove(sc, 65)
            medium == OverlapAbove(l1, l2, 3) /\ ScoreAbove(sc, 45)
            low == OverlapAbove(l1, l2, 1)
        IN  helper_result.returned =
                IF high THEN "HIGH"
                ELSE IF medium THEN "MEDIUM"
                ELSE IF low THEN "LOW"
                ELSE "NONE"

\* C12 witness: the overlap is 3 of 5 programs, exactly 0.6, the score is above
\* 0.65, and the level returned is MEDIUM
C12_OverlapOnThreshold ==
    /\ Returned("_determine_competition_level")
    /\ Cardinality(Range(helper_call.my_college.programs)
                      \cap Range(helper_call.competitor.programs)) = 3
    /\ Cardinality(Range(helper_call.my_college.programs)
                      \cup Range(helper_call.competitor.programs)) = 5
    /\ ScoreAbove(helper_call.similarity_score, 65)
    /\ helper_result.returned = "MEDIUM"

\* C13: _compare_programs returns |A /\ B| / |A \/ B| for the program sets A
\* and B of the two profiles when both are non-empty, and 0.5 when either set
\* is empty; the result is the same with the two profiles swapped.
C13_JaccardOrNeutral ==
    Returned("_compare_programs") =>
        LET A == Range(helper_call.college1.programs)
            B == Range(helper_call.college2.programs)
            r == helper_result.returned
        IN  /\ IF A = {} \/ B = {}
               THEN r.num = 1 /\ r.den = 2
               ELSE r.num * Cardinality(A \cup B) = Cardinality(A \cap B) * r.den
            /\ compare_programs(helper_call.college2, helper_call.college1) = r

\* C13 witness: one profile without programs compared with one that has some,
\* 0.5 returned
C13_OneSideEmpty ==
    /\ Returned("_compare_programs")
    /\ helper_call.college1.programs = <<>>
    /\ helper_call.college2.programs # <<>>
    /\ helper_result.returned = Frac(1, 2)

\* the academic metrics present in both profiles of a call of _compare_metrics
PresentInBoth ==
    {metric \in Range(helper_call.metrics) :
         /\ helper_call.college1[metric] # None
         /\ helper_call.college2[metric] # None}

\* 1 - |v1 - v2| / max(|v1|, |v2|) for two values that are not negative,
\* and 1 when they are equal
SimilarityOfValues(v1, v2) ==
    IF v1 = v2 THEN Frac(1, 1)
    ELSE LET larger == IF v1 > v2 THEN v1 ELSE v2
             smaller == IF v1 > v2 THEN v2 ELSE v1
         IN  Frac(smaller, larger)

RECURSIVE SumOfSimilarities(_)
SumOfSimilarities(metrics) ==
    IF metrics = {} THEN Frac(0, 1)
    ELSE LET metric == CHOOSE x \in metrics : TRUE
             rest == SumOfSimilarities(metrics \ {metric})
             sim == SimilarityOfValues(helper_call.college1[metric].value,
                                       helper_call.college2[metric].value)
         IN  Frac(rest.num * sim.den + sim.num * rest.den, rest.den * sim.den)

\* C15: _compare_metrics returns the mean of the per-metric similarities over
\* exactly the metrics present (not None) in both profiles, a value 0 counting
\* as present and an absent metric never as the value 0, and 0.5 when no
\* metric is present in both.
C15_MeanOverPresentMetrics ==
    Returned("_compare_metrics") =>
        LET r == helper_result.returned
            total == SumOfSimilarities(PresentInBoth)
        IN  IF PresentInBoth = {}
            THEN r.num = 1 /\ r.den = 2
            ELSE r.num * total.den * Cardinality(PresentInBoth) = total.num * r.den

\* C15 witness: avg_act is 0 in both profiles, avg_gpa is 0 in one and not in
\* the other, and avg_sat is absent from one profile only
C15_ZeroAndAbsentMetrics ==
    /\ Returned("_compare_metrics")
    /\ helper_call.college1.avg_act = Some(0)
    /\ helper_call.college2.avg_act = Some(0)
    /\ helper_call.college1.avg_gpa = Some(0)
    /\ helper_call.college2.avg_gpa = Some(2)
    /\ helper_call.college1.avg_sat = None
    /\ helper_call.college2.avg_sat # None
    /\ helper_result.returned = Frac(1, 2)

\* a profile pair with an empty program list on a side and no academic metric
\* and no enrollment present in both profiles
NothingToCompare ==
    /\ my_college.programs = <<>> \/ competitor.programs = <<>>
    /\ \A metric \in Range(academic_metrics) \cup {"enrollment"} :
           my_college[metric] = None \/ competitor[metric] = None

\* the float (2^53 - 1) * 2^-54, which is 0.5 less one unit in the last place
\* and prints as 0.49999999999999994
HalfLessOneUlp == [m |-> <<2^14 - 1, 2^14 - 1, 2^14 - 1, 2^11 - 1>>, e |-> -54]

\* C14 as stated: when either profile has an empty program list and no
\* academic metric or enrollment value is present in both profiles,
\* compare_colleges returns the overall score 0.5 and the level MEDIUM.
C14_NeutralScoreIsHalf ==
    (comparison # None /\ NothingToCompare) =>
        /\ comparison.similarity_score = FQuot(1, 2)
        /\ comparison.competition_level = "MEDIUM"

\* C14 as amended: in that case compare_colleges returns the float value of
\* 0.5*0.70 + 0.5*0.20 + 0.5*0.10, which is 0.49999999999999994 (0.5 less one
\* unit in the last place), and the level MEDIUM.
C14_NeutralScoreIsTheFloatSum ==
    (comparison # None /\ NothingToCompare) =>
        /\ comparison.similarity_score = HalfLessOneUlp
        /\ comparison.competition_level = "MEDIUM"

\* C14 witness: the home profile has programs and metrics, the competitor has
\* neither, and the two have been compared
C14_ComparedWithEmptyProfile ==
    /\ comparison # None
    /\ NothingToCompare
    /\ my_college.programs # <<>>
    /\ my_college.avg_gpa # None
    /\ my_college.enrollment # None
    /\ competitor.programs = <<>>

\* C16: in every competitor entry of every report of match_courses, for any
\* home and competitor course lists (lists with repeated names included),
\* 0.0 <= competition_score <= 1.0.
C16_ScoreWithinBounds ==
    report # None =>
        \A i \in DOMAIN report.competitors :
            LET score == report.competitors[i].competition_score
            IN  /\ score.den > 0
                /\ 0 <= score.num
                /\ score.num <= score.den

\* C16 witness: a report with an entry whose weighted overlap, 2 * exact +
\* close, is above the competitor's number of courses, and with a competitor
\* whose list names a course twice
C16_OverlapAboveTotal ==
    /\ report # None
    /\ \E i \in DOMAIN report.competitors :
          LET entry == report.competitors[i]
          IN  2 * entry.exact_match_count + entry.close_match_count > entry.total_courses
    /\ \E j \in DOMAIN report.competitors :
          ~NoRepetition(competitor_courses[j].normalized_courses)

\* C17: a competitor with zero courses gets an entry with competition_score
\* 0.0, match_percentage 0 and the VERY LOW level, and the summary is produced.
C17_CompetitorWithoutCourses ==
    report # None =>
        /\ \A i \in DOMAIN report.competitors :
               competitor_courses[i].normalized_courses = <<>> =>
                   /\ report.competitors[i].competition_score.num = 0
                   /\ report.competitors[i].match_percentage.num = 0
                   /\ report.competitors[i].competition_level = "VERY LOW"
        /\ report.summary.total_competitors_analyzed = Len(competitor_courses)

\* C17 witness: a report on a competitor with zero courses beside one with
\* courses, for a home college that has programs
C17_EmptyCompetitorReported ==
    /\ report # None
    /\ report.your_college.courses # <<>>
    /\ \E i, j \in DOMAIN report.competitors :
          /\ competitor_courses[i].normalized_courses = <<>>
          /\ report.competitors[i].total_courses = 0
          /\ report.competitors[j].total_courses > 0
    /\ report.summary.total_competitors_analyzed > 1

\* how many competitor entries of the report have one of the levels
CountOfLevels(levels) ==
    Cardinality({i \in DOMAIN report.competitors :
                     report.competitors[i].competition_level \in levels})

\* C18 as stated: very_high_competition, high_competition, medium_competition
\* and low_competition each equal the number of competitors of the report whose
\* competition_level is VERY HIGH, HIGH, MEDIUM and LOW respectively.
C18_CountsByLevel ==
    report # None =>
        /\ report.summary.very_high_competition = CountOfLevels({"VERY HIGH"})
        /\ report.summary.high_competition = CountOfLevels({"HIGH"})
        /\ report.summary.medium_competition = CountOfLevels({"MEDIUM"})
        /\ report.summary.low_competition = CountOfLevels({"LOW"})

\* C18 as amended: very_high_competition, high_competition and
\* medium_competition equal the number of competitors whose level is VERY HIGH,
\* HIGH and MEDIUM, and low_competition equals the number of competitors whose
\* level is LOW or VERY LOW (every score below 0.3).
C18_LowCountsVeryLowToo ==
    report # None =>
        /\ report.summary.very_high_competition = CountOfLevels({"VERY HIGH"})
        /\ report.summary.high_competition = CountOfLevels({"HIGH"})
        /\ report.summary.medium_competition = CountOfLevels({"MEDIUM"})
        /\ report.summary.low_competition = CountOfLevels({"LOW", "VERY LOW"})

\* C18 witness: a report on competitors of all five levels
C18_AllLevelsReported ==
    /\ report # None
    /\ \A level \in {"VERY HIGH", "HIGH", "MEDIUM", "LOW", "VERY LOW"} :
           CountOfLevels({level}) > 0

\* where the competitor of that name stands in the competitor list of the report
PlaceOf(name) == CHOOSE i \in DOMAIN report.competitors : report.competitors[i].name = name

\* C19: biggest_competitors holds min(5, n) of the n competitors, in
\* non-increasing order of competition_score; no omitted competitor has a
\* higher score than an included one; competitors of equal score appear in
\* the order they had in the input competitor list.
C19_TopFiveStable ==
    report # None =>
        LET all == report.competitors
            top == report.summary.biggest_competitors
            n == Len(all)
            included == {PlaceOf(top[k].name) : k \in DOMAIN top}
        IN  /\ Len(top) = IF n < 5 THEN n ELSE 5
            /\ \A k \in DOMAIN top :
                   /\ \E i \in DOMAIN all : all[i].name = top[k].name
                   /\ top[k].score = all[PlaceOf(top[k].name)].competition_score
                   /\ top[k].matches = all[PlaceOf(top[k].name)].exact_match_count
            /\ Cardinality(included) = Len(top)
            /\ \A k, l \in DOMAIN top :
                   k < l =>
                       /\ RLeq(top[l].score, top[k].score)
                       /\ top[k].score = top[l].score
                              => PlaceOf(top[k].name) < PlaceOf(top[l].name)
            /\ \A i \in DOMAIN all \ included :
                   \A k \in DOMAIN top : RLeq(all[i].competition_score, top[k].score)

\* C19 witness: six competitors that are not in order of score, two of the
\* five listed ones with the same score and one with a lower score
C19_SixCompetitorsWithTies ==
    /\ report # None
    /\ Len(report.competitors) = 6
    /\ \E i, j \in DOMAIN report.competitors :
          /\ i < j
          /\ RLess(report.competitors[i].competition_score,
                   report.competitors[j].competition_score)
    /\ \E k, l \in DOMAIN report.summary.biggest_competitors :
          /\ k < l
          /\ report.summary.biggest_competitors[k].score
                 = report.summary.biggest_competitors[l].score
    /\ \E k, l \in DOMAIN report.summary.biggest_competitors :
          RLess(report.summary.biggest_competitors[l].score,
                report.summary.biggest_competitors[k].score)

C21_ExactWeighsAtLeastClose ==
    Returned("_calculate_competition_score") =>
        LET first == helper_call.calls[1]
            second == helper_call.calls[2]
        IN  (/\ first[3] > 0
             /\ first[1] = second[1] + 1
             /\ second[2] = first[2] + 1)
            => RLeq(helper_result.returned[2], helper_result.returned[1])

\* C21 witness: the two calls made below the cap, where the exact match scores
\* strictly more
C21_OneMoreExactScoresMore ==
    /\ Returned("_calculate_competition_score")
    /\ helper_call.calls[1][3] > 0
    /\ helper_call.calls[1][1] = helper_call.calls[2][1] + 1
    /\ helper_call.calls[2][2] = helper_call.calls[1][2] + 1
    /\ RLess(helper_result.returned[2], helper_result.returned[1])
    /\ RLess(helper_result.returned[1], ROne)

\* the college ids of the URLs analysed
CollegeIds == {generate_college_id(url) : url \in Urls}

\* the records get_all_competitors returns for a college id
RecordsOf(table, college_id) ==
    SelectSeq(get_all_competitors(table), LAMBDA c : c.college_id = college_id)

\* C22: the competitor store holds at most one record per college_id; after an
\* operation get_all_competitors returns, for each college_id the operation
\* called add_competitor with, the data of its most recent such call, and the
\* records of every other college_id as they were before.
C22_KeyedByCollegeId ==
    [][\A college_id \in CollegeIds :
          LET adds == {i \in DOMAIN calls_made' :
                          /\ calls_made'[i].fn = "add_competitor"
                          /\ calls_made'[i].college_id = college_id}
              last == calls_made'[CHOOSE i \in adds : \A j \in adds : j <= i]
          IN  /\ Len(RecordsOf(db_competitors', college_id)) <= 1
              /\ IF adds = {}
                 THEN RecordsOf(db_competitors', college_id)
                          = RecordsOf(db_competitors, college_id)
                 ELSE RecordsOf(db_competitors', college_id)
                          = <<[college_id |-> college_id,
                               name |-> last.college_data.name,
                               profile |-> last.college_data.profile]>>]_vars

\* C22 witness: one operation added the same college_id twice with different
\* data while the store holds the record of another college_id
C22_SameIdAddedTwice ==
    /\ \E i, j \in DOMAIN calls_made :
          /\ i < j
          /\ calls_made[i].fn = "add_competitor"
          /\ calls_made[j].fn = "add_competitor"
          /\ calls_made[i].college_id = calls_made[j].college_id
          /\ calls_made[i].college_data # calls_made[j].college_data
    /\ Len(db_competitors) = 2

\* the report a get_competition_report call has just returned, if any
ReportReturned ==
    /\ calls_made # <<>>
    /\ calls_made[1].fn = "get_competition_report"

\* how many stored comparison records have the level
StoredWithLevel(level) ==
    Len(SelectSeq(db_comparisons, LAMBDA cr : cr.competition_level = level))

\* C23: the competition_summary counts of get_competition_report equal the
\* numbers of stored comparison records whose competition_level is HIGH,
\* MEDIUM and LOW.
C23_SummaryCountsStoredLevels ==
    ReportReturned =>
        LET summary == calls_made[1].returned.competition_summary
        IN  /\ summary.high_competition = StoredWithLevel("HIGH")
            /\ summary.medium_competition = StoredWithLevel("MEDIUM")
            /\ summary.low_competition = StoredWithLevel("LOW")

\* C24: in the report of run_analysis no competitor program reported in
\* exact_matches is also the competitor side of a pair of similar_matches.
C24_ExactNotAlsoSimilar ==
    ireport # None =>
        \A i \in DOMAIN ireport.competitors :
            \A m \in Range(ireport.competitors[i].entry.similar_matches) :
                m[1] \notin Range(ireport.competitors[i].entry.exact_matches)

\* the entries of the log that are comparisons of a level other than NONE
RealCompetitors ==
    SelectSeq(calls_made, LAMBDA call : /\ call.fn = "compare_colleges"
                                        /\ call.returned.competition_level # "NONE")

\* C25: in analyze_competitors a competitor scraped is stored before it is
\* compared; a comparison is saved and a result returned for it exactly when its
\* level is not NONE; a failed scrape is followed by no write; and every saved
\* comparison refers to a competitor id present in the competitor store.
C25_StoredThenComparedThenSaved ==
    /\ \A i \in DOMAIN calls_made :
          /\ (calls_made[i].fn = "scrape_college" /\ calls_made[i].returned # None) =>
                 /\ i + 2 <= Len(calls_made)
                 /\ calls_made[i + 1] =
                        add_competitor_call(generate_college_id(calls_made[i].url),
                                            calls_made[i].returned)
                 /\ calls_made[i + 2].fn = "compare_colleges"
                 /\ calls_made[i + 2].college_id = generate_college_id(calls_made[i].url)
          /\ (calls_made[i].fn = "scrape_college" /\ calls_made[i].returned = None) =>
                 (i < Len(calls_made) => calls_made[i + 1].fn = "scrape_college")
          /\ calls_made[i].fn = "compare_colleges" =>
                 (calls_made[i].returned.competition_level # "NONE"
                  <=> (/\ i < Len(calls_made)
                       /\ calls_made[i + 1] =
                              save_comparison_call(calls_made[i].college_id,
                                                   calls_made[i].returned.competition_level)))
          /\ calls_made[i].fn = "save_comparison" =>
                 (i > 1 /\ calls_made[i - 1].fn = "compare_colleges")
    /\ (\E i \in DOMAIN calls_made : calls_made[i].fn = "scrape_college") =>
          /\ Len(results) = Len(RealCompetitors)
          /\ \A k \in DOMAIN results :
                /\ results[k].competition_level
                       = RealCompetitors[k].returned.competition_level
                /\ results[k].similarity_score
                       = RealCompetitors[k].returned.similarity_score
    /\ \A i \in DOMAIN db_comparisons :
          \E j \in DOMAIN db_competitors :
              db_competitors[j].college_id = db_comparisons[i].competitor_id

\* C25 witness: one call in which a scrape failed or a competitor of level NONE
\* was stored without a comparison, and another competitor was saved
C25_OneSkippedOneSaved ==
    /\ \E i \in DOMAIN calls_made :
          \/ calls_made[i].fn = "scrape_college" /\ calls_made[i].returned = None
          \/ /\ calls_made[i].fn = "compare_colleges"
             /\ calls_made[i].returned.competition_level = "NONE"
    /\ \E i \in DOMAIN calls_made : calls_made[i].fn = "save_comparison"
    /\ results # <<>>

\* C26: while no home college is stored, analyze_competitors returns the empty
\* list and does nothing else: it scrapes no URL and writes no competitor and
\* no comparison record (a step that leaves the log empty is such a call).
C26_NoHomeNothingDone ==
    /\ [](db_my_college = None =>
             /\ results = <<>>
             /\ db_comparisons = <<>>
             /\ \A i \in DOMAIN calls_made :
                   calls_made[i].fn \notin {"scrape_college", "compare_colleges",
                                            "save_comparison"})
    /\ [][(db_my_college = None /\ calls_made' = <<>>) =>
             /\ results' = <<>>
             /\ db_competitors' = db_competitors
             /\ db_comparisons' = db_comparisons
             /\ db_my_college' = None]_vars

\* C26 witness: analyze_competitors was called without a home college on a
\* store that holds a competitor (only that call empties the log)
C26_CalledWithoutHome ==
    /\ db_my_college = None
    /\ db_competitors # <<>>
    /\ calls_made = <<>>

\* the requests of the log that failed
AllFailed(requests) == \A i \in DOMAIN requests : ~requests[i].ok

C28_NoneExactlyWhenZero ==
    comparison # None =>
        (comparison.competition_level = "NONE" <=> comparison.similarity_score = FZero)

\* the scrapes of the log that returned data
Scraped == {i \in DOMAIN calls_made : /\ calls_made[i].fn = "scrape_college"
                                      /\ calls_made[i].returned # None}

\* the URLs scraped are distinct
DistinctUrls ==
    \A i, j \in DOMAIN calls_made :
        (/\ calls_made[i].fn = "scrape_college"
         /\ calls_made[j].fn = "scrape_college"
         /\ calls_made[i].url = calls_made[j].url) => i = j

\* C29: for distinct URLs, detect_competitor_courses returns one entry per URL
\* whose scrape succeeded.
C29_OneEntryPerScrapedUrl ==
    DistinctUrls => Len(competitor_courses) = Cardinality(Scraped)

\* C30: the competitor record generate_competition_report stores lists all the
\* programs detected for the competitor, and get_all_competitors returns them.
C30_StoredProgramsComplete ==
    report # None =>
        \A i \in DOMAIN report.competitors :
            \A c \in Range(get_all_competitors(db_competitors)) :
                c.college_id = store_college_id(report.competitors[i].name) =>
                    Range(c.profile.programs)
                        = Range(competitor_courses[i].normalized_courses)

====
